---- MODULE Spec2Model ----
(***************************************************************************)
(* Reconciliation engine of dns_manager: checkAndUpdate (main.go) driving  *)
(* the Cloudflare record client (UpdateOrCreateDNSRecord, UpdateDNSRecord, *)
(* CreateDNSRecord, GetAllDNSRecords) for several hosts that share one     *)
(* record name.  Every HTTP call to the provider is one atomic step, so    *)
(* the calls of different hosts interleave in any order.  The resolver     *)
(* (GetPublicIPWithService, isValidIPv4) and the handling of one provider  *)
(* response by the client are specified on their own, endpoint by endpoint *)
(* and response by response.  The scheduler (main, runDaemon,              *)
(* reloadConfig) is specified for one daemon process with its signals, its *)
(* ticker and its configuration file, running the same checkAndUpdate      *)
(* steps; the interactive menu (runInteractive) likewise.  The --daemon    *)
(* start (daemonize) and the commands that stop the daemon or clean up its *)
(* PID file are specified process by process.                              *)
(***************************************************************************)
EXTENDS Integers, Sequences, FiniteSets, TLC

(* ---------------------------------------------------------------- bounds *)
\* total number of times the address reported for a host changes
MaxChanges == 1
\* total number of cycles in which calls (resolver or provider) fail
MaxFaultyCycles == 1
\* total number of process restarts
MaxRestarts == 1
\* number of records the zone holds at most
MaxRecords == 3
\* total number of signals sent to the daemon
MaxSignals == 2
\* total number of times the configuration file is rewritten
MaxEdits == 1
\* total number of records another actor deletes or overwrites
MaxTampers == 1
\* processes one --daemon start may create
MaxProcs == 3
\* management commands (--stop, --kill, --cleanup) run
MaxCommands == 2
\* client objects the interactive menu may build in a row
MaxClients == 2

(* ------------------------------------------------------ program constants *)
\* maxRetries := 3 in checkAndUpdate
maxRetries == 3
\* defaultTTL := 3600 in checkAndUpdate
FallbackTTL == 3600
\* http.StatusOK
StatusOK == 200

\* the two hosts (processes) that share the record name
Hosts == {1, 2}
Addrs == {"a1", "a2", "a3"}
\* the record type of the default configuration and of the wizard's default
RecordType == "A"
\* the zero value of a Go string
NoIP == ""

VARIABLES
    records,     \* the provider's records at the shared name, in list order
    nextId,      \* the id the provider assigns to the next created record
    addr,        \* addr[h]: the address the discovery endpoints report for h
    currentIP,   \* currentIP[h]: the package variable currentIP of process h
    pc,          \* pc[h]: position of process h inside checkAndUpdate
    ip,          \* ip[h]: first observation of the running cycle
    confirmIP,   \* confirmIP[h]: second observation of the running cycle
    attempt,     \* attempt[h]: loop counter i of the running retry loop
    defaultTTL,  \* defaultTTL[h]: TTL handed to UpdateOrCreateDNSRecord
    target,      \* target[h]: targetRecord picked by UpdateDNSRecord
    cyc,         \* cyc[h]: what the running (or last) cycle of h has done
    prevObs,     \* prevObs[h]: address confirmed by the previous cycle of h
    changes,     \* address changes so far
    faulty,      \* faulty[h]: calls of the running cycle of h may fail
    faultyCycles,\* cycles with failing calls so far
    restarts,    \* process restarts so far
    answer,      \* answer[s]: what discovery endpoint s answers to a GET
    queried,     \* the endpoints GetPublicIPWithService has queried, in order
    lastErr,     \* lastErr of GetPublicIPWithService
    scan,        \* position of GetPublicIPWithService in ic.services
    result,      \* what GetPublicIPWithService has returned
    response,    \* the provider's answer to one list, create or update call
    verdict,     \* what the client call has returned for that answer
    loop,        \* position of the daemon process in main and runDaemon
    startup,     \* the cycle runDaemon runs before it creates the ticker
    sigChan,     \* the buffered channel signal.Notify delivers to
    tickC,       \* ticker.C holds a tick
    file,        \* the configuration file
    config,      \* the package variable config
    cfClient,    \* the package variable cfClient
    zones,       \* the records at the names config does not point to
    signals,     \* signals sent to the daemon so far
    edits,       \* writes of the configuration file so far
    tampers,     \* records deleted or overwritten by another actor so far
    lost,        \* a tick has fired while ticker.C was full
    stopReq,     \* a shutdown signal has been sent: at the select, in a cycle
    reloadReq,   \* the reload request of the running cycle, not yet serviced
    proc,        \* proc[p]: position of process p of a --daemon start
    pidFile,     \* the PID in ~/.go_dns_manager/dns_manager.pid
    pending,     \* the processes a SIGTERM has been sent to and not delivered
    mgmt         \* the management command that runs or has run last

\* the variables of checkAndUpdate and of the zone
programVars == <<records, nextId, addr, currentIP, pc, ip, confirmIP, attempt,
                 defaultTTL, target, cyc, prevObs, changes, faulty,
                 faultyCycles, restarts>>

\* the variables of one GetPublicIPWithService call seen endpoint by endpoint
resolverVars == <<answer, queried, lastErr, scan, result>>

\* the variables of one client call seen at the level of its HTTP response
clientVars == <<response, verdict>>

\* the variables of main, runDaemon and reloadConfig, and of their environment
\* the variables of daemonize and of the commands that manage the daemon
pidVars == <<proc, pidFile, pending, mgmt>>

daemonVars == <<loop, startup, sigChan, tickC, file, config, cfClient, zones,
                signals, edits, tampers, lost, stopReq, reloadReq, pidVars>>

vars == <<records, nextId, addr, currentIP, pc, ip, confirmIP, attempt,
          defaultTTL, target, cyc, prevObs, changes, faulty, faultyCycles,
          restarts, answer, queried, lastErr, scan, result, response,
          verdict, loop, startup, sigChan, tickC, file, config, cfClient,
          zones, signals, edits, tampers, lost, stopReq, reloadReq, proc,
          pidFile, pending, mgmt>>

(* ------------------------------------------------------- record client *)

\* DNSRecord{ID, Type, Content, TTL} (Name is the shared name throughout)
Rec(id, type, content, ttl) ==
    [id |-> id, type |-> type, content |-> content, ttl |-> ttl]

\* GetAllDNSRecords: the records of the wanted type, in list order
TypeFilter(recs, type) ==
    SelectSeq(recs, LAMBDA r : r.type = type)

\* for _, record := range records { if record.Content == content ... }
HasContent(recs, content) ==
    \E k \in 1..Len(recs) : recs[k].content = content

\* UpdateDNSRecord: index of the first record of the wanted type, 0 if none
FirstOfType(recs, type) ==
    IF \E k \in 1..Len(recs) : recs[k].type = type
    THEN CHOOSE k \in 1..Len(recs) :
            /\ recs[k].type = type
            /\ \A j \in 1..(k - 1) : recs[j].type # type
    ELSE 0

\* an existing record is overwritten where a new one should be created
UOCDecision_overwrite(listed, recs, content, oldIP) ==
    IF ~listed \/ Len(recs) = 0 THEN "create"
    ELSE IF HasContent(recs, content) THEN "skip"
    ELSE "update"

\* UpdateOrCreateDNSRecord's decision on the records it has just listed
\* (listed = FALSE: GetAllDNSRecords returned an error)
UOCDecision(listed, recs, content, oldIP) ==
    IF ~listed \/ Len(recs) = 0 THEN "create"
    ELSE IF HasContent(recs, content) THEN "skip"
    ELSE IF oldIP # NoIP /\ HasContent(recs, oldIP) THEN "update"
    ELSE "create"

\* checkAndUpdate: defaultTTL from the records listed at the start
DefaultTTL(allRecords) ==
    IF Len(allRecords) > 0 THEN allRecords[1].ttl ELSE FallbackTTL

\* the comparison with currentIP left out
NoChange_never(observed, cur) == FALSE

\* checkAndUpdate: if ip == currentIP { return }
NoChange(observed, cur) == observed = cur

\* the comparison of the two observations left out
ConfirmMatches_any(second, first) == TRUE

\* checkAndUpdate: if confirmIP != ip { return }
ConfirmMatches(second, first) == second = first

\* the provider applies PUT /dns_records/<id>
PutRecord(recs, id, content, ttl) ==
    [k \in 1..Len(recs) |->
        IF recs[k].id = id
        THEN [recs[k] EXCEPT !.content = content, !.ttl = ttl]
        ELSE recs[k]]

\* the update request with the fallback TTL in place of the record's own
UpdateReq_fallbackTTL(content, targetRecord) ==
    [content |-> content, ttl |-> FallbackTTL]

\* UpdateDNSRecord: DNSRecordUpdateRequest{Content: content,
\* TTL: targetRecord.TTL}
UpdateReq(content, targetRecord) ==
    [content |-> content, ttl |-> targetRecord.ttl]

\* the provider knows the record id
HasId(recs, id) == \E k \in 1..Len(recs) : recs[k].id = id

\* the content the provider holds for the record id
ContentOf(recs, id) ==
    recs[CHOOSE k \in 1..Len(recs) : recs[k].id = id].content

\* the read-back of the echoed content left out
PutVerdict_noReadBack(status, success, echoed, content) ==
    IF status # StatusOK THEN "err"
    ELSE IF ~success THEN "err"
    ELSE "ok"

\* UpdateDNSRecord on the response to its PUT: status, success flag, and the
\* content echoed in result against the content asked for
PutVerdict(status, success, echoed, content) ==
    IF status # StatusOK THEN "err"
    ELSE IF ~success THEN "err"
    ELSE IF echoed # content THEN "err"
    ELSE "ok"

(* --------------------------------------------------------- the resolver *)

\* NewIPChecker: ic.services and ic.primaryService
services ==
    <<"https://api.ipify.org", "https://ifconfig.me/ip",
      "https://icanhazip.com", "https://api.ip.sb/ip">>
primaryService == "https://api.ipify.org"

\* the endpoints as a set
ServiceSet == {services[i] : i \in 1..Len(services)}

\* a Go string is modelled as the sequence of its characters; Nil is the
\* empty string, the nil net.IP and the nil slice
Nil == <<>>

\* unicode.IsSpace on the characters that occur
IsSpace(c) == c \in {" ", "\t", "\n", "\r"}

RECURSIVE TrimLeft(_)
TrimLeft(s) ==
    IF Len(s) > 0 /\ IsSpace(Head(s)) THEN TrimLeft(Tail(s)) ELSE s

RECURSIVE TrimRight(_)
TrimRight(s) ==
    IF Len(s) > 0 /\ IsSpace(s[Len(s)])
    THEN TrimRight(SubSeq(s, 1, Len(s) - 1))
    ELSE s

\* strings.TrimSpace
TrimSpace(s) == TrimRight(TrimLeft(s))

\* the fields of s between the occurrences of the character sep
RECURSIVE Split(_, _)
Split(s, sep) ==
    IF \E i \in 1..Len(s) : s[i] = sep
    THEN LET i == CHOOSE i \in 1..Len(s) :
                     s[i] = sep /\ \A j \in 1..(i - 1) : s[j] # sep
         IN  <<SubSeq(s, 1, i - 1)>> \o Split(SubSeq(s, i + 1, Len(s)), sep)
    ELSE <<s>>

\* the digits of base 10 (the first ten) and 16
Digits ==
    <<"0", "1", "2", "3", "4", "5", "6", "7", "8", "9",
      "a", "b", "c", "d", "e", "f">>

IsDigit(c, base) == \E i \in 1..base : Digits[i] = c

DigitVal(c) == (CHOOSE i \in 1..Len(Digits) : Digits[i] = c) - 1

RECURSIVE NumVal(_, _)
NumVal(s, base) ==
    IF Len(s) = 0 THEN 0
    ELSE NumVal(SubSeq(s, 1, Len(s) - 1), base) * base + DigitVal(s[Len(s)])

\* s is a number of at most maxLen digits of the base
IsNumber(s, base, maxLen) ==
    /\ Len(s) \in 1..maxLen
    /\ \A i \in 1..Len(s) : IsDigit(s[i], base)

\* one field of a dotted quad: decimal, no leading zero, at most 255
IsOctet(f) ==
    /\ IsNumber(f, 10, 3)
    /\ (Len(f) > 1 => f[1] # "0")
    /\ NumVal(f, 10) <= 255

\* net.parseIPv4: the four bytes of a dotted quad, Nil when s is not one
ParseIPv4(s) ==
    LET f == Split(s, ".") IN
    IF Len(f) = 4 /\ \A i \in 1..4 : IsOctet(f[i])
    THEN [i \in 1..4 |-> NumVal(f[i], 10)]
    ELSE Nil

HasDot(s) == \E i \in 1..Len(s) : s[i] = "."

\* the 16-bit groups that the colon-separated fields fs stand for; the last
\* field may be a dotted quad (two groups); -1 marks a field that is neither
RECURSIVE Groups(_)
Groups(fs) ==
    IF Len(fs) = 0 THEN <<>>
    ELSE IF Len(fs) = 1 /\ HasDot(fs[1])
    THEN LET q == ParseIPv4(fs[1]) IN
         IF q = Nil THEN <<-1>>
         ELSE <<q[1] * 256 + q[2], q[3] * 256 + q[4]>>
    ELSE IF IsNumber(Head(fs), 16, 4)
    THEN <<NumVal(Head(fs), 16)>> \o Groups(Tail(fs))
    ELSE <<-1>>

\* the groups of the text on one side of the ellipsis "::"
PartGroups(p) == IF Len(p) = 0 THEN <<>> ELSE Groups(Split(p, ":"))

AllGroups(g) == \A i \in 1..Len(g) : g[i] >= 0

\* net.parseIPv6: the eight 16-bit groups of an IPv6 literal (one ellipsis
\* at most, a dotted quad allowed as its last 32 bits), Nil otherwise
ParseIPv6(s) ==
    LET ell == {i \in 1..(Len(s) - 1) : s[i] = ":" /\ s[i + 1] = ":"} IN
    IF ell = {}
    THEN LET g == PartGroups(s) IN
         IF Len(g) = 8 /\ AllGroups(g) THEN g ELSE Nil
    ELSE IF Cardinality(ell) > 1 THEN Nil
    ELSE LET i == CHOOSE i \in ell : TRUE
             left == SubSeq(s, 1, i - 1)
             l == PartGroups(left)
             r == PartGroups(SubSeq(s, i + 2, Len(s)))
         IN  IF /\ AllGroups(l)
                /\ AllGroups(r)
                /\ ~HasDot(left)
                /\ Len(l) + Len(r) <= 7
             THEN l \o [k \in 1..(8 - Len(l) - Len(r)) |-> 0] \o r
             ELSE Nil

\* net.ParseIP: the 16-byte form, as eight groups; a dotted quad comes back
\* as the IPv4-mapped address ::ffff:a.b.c.d
ParseIP(s) ==
    LET marks == {i \in 1..Len(s) : s[i] \in {".", ":"}} IN
    IF marks = {} THEN Nil
    ELSE LET i == CHOOSE i \in marks : \A j \in marks : i <= j IN
         IF s[i] = "."
         THEN LET q == ParseIPv4(s) IN
              IF q = Nil THEN Nil
              ELSE <<0, 0, 0, 0, 0, 65535,
                     q[1] * 256 + q[2], q[3] * 256 + q[4]>>
         ELSE ParseIPv6(s)

\* net.IP.To4: the four bytes when the first 10 bytes are zero and the next
\* two are 0xff, Nil otherwise
To4(p) ==
    IF (\A i \in 1..5 : p[i] = 0) /\ p[6] = 65535
    THEN <<p[7] \div 256, p[7] % 256, p[8] \div 256, p[8] % 256>>
    ELSE Nil

\* isValidIPv4
isValidIPv4(text) ==
    LET parsedIP == ParseIP(TrimSpace(text)) IN
    IF parsedIP = Nil THEN FALSE ELSE To4(parsedIP) # Nil

\* the answer of a discovery endpoint: no answer at all (client.Get returns
\* an error), or a status and a body
Answer(transport, status, body) ==
    [transport |-> transport, status |-> status, body |-> body]

NoAnswer == Answer(FALSE, 0, Nil)

\* what the endpoints may answer
Answers ==
    { Answer(TRUE, StatusOK, <<"1", ".", "2", ".", "3", ".", "4">>),
      Answer(TRUE, StatusOK, <<"5", ".", "6", ".", "7", ".", "8", "\n">>),
      Answer(TRUE, StatusOK,
             <<":", ":", "f", "f", "f", "f", ":",
               "1", ".", "2", ".", "3", ".", "4">>),
      Answer(TRUE, StatusOK,
             <<"2", "0", "0", "1", ":", "d", "b", "8", ":", ":", "1">>),
      Answer(TRUE, StatusOK, <<"1", ".", "2", ".", "3">>),
      Answer(TRUE, StatusOK, <<" ", "\n">>),
      Answer(TRUE, 503, <<"1", ".", "2", ".", "3", ".", "4">>),
      NoAnswer }

\* the error values of the resolver
NoErr == [kind |-> "nil", url |-> ""]
Err(kind, url) == [kind |-> kind, url |-> url]

\* getIPFromService on the answer of the endpoint
getIPFromService(url) ==
    LET a == answer[url]
        body == TrimSpace(a.body)
    IN  IF ~a.transport THEN [ip |-> Nil, err |-> Err("get", url)]
        ELSE IF a.status # StatusOK
        THEN [ip |-> Nil, err |-> Err("status", url)]
        ELSE IF body = Nil THEN [ip |-> Nil, err |-> Err("empty", url)]
        ELSE IF ~isValidIPv4(body)
        THEN [ip |-> Nil, err |-> Err("format", url)]
        ELSE [ip |-> body, err |-> NoErr]

\* if err == nil && ip != "" && isValidIPv4(ip)
Accepted(r) == r.err = NoErr /\ r.ip # Nil /\ isValidIPv4(r.ip)

\* what GetPublicIPWithService returns
Returned(state, text, service, err) ==
    [state |-> state, ip |-> text, service |-> service, err |-> err]

\* no GetPublicIPWithService call is looked at endpoint by endpoint
ResolverIdle ==
    /\ answer = [s \in ServiceSet |-> NoAnswer]
    /\ queried = <<>>
    /\ lastErr = NoErr
    /\ scan = 0
    /\ result = Returned("idle", Nil, "", NoErr)

(* ----------------------------------------------------- the HTTP responses *)

\* the calls of the client that read a provider response
Ops == {"list", "create", "update"}

\* one entry of the errors list of a response
ApiError(code, message) == [code |-> code, message |-> message]

\* the errors lists that occur: none, one entry, two entries
ErrorLists ==
    LET auth == ApiError(10000, <<"a", "u", "t", "h">>)
        zone == ApiError(7003, <<"n", "o", " ", "z", "o", "n", "e">>)
    IN  {<<>>, <<auth>>, <<zone>>, <<auth, zone>>, <<zone, auth>>,
         <<auth, auth>>}

\* the answer to one request: no answer at all (makeRequest returns an
\* error), or a status and a body; the body decodes or not, and when it does
\* it holds success, errors and result (for update, result.content)
Responses ==
    [op : Ops, transport : BOOLEAN, status : {StatusOK, 403},
     parsable : BOOLEAN, success : BOOLEAN, errors : ErrorLists,
     payload : {"a1", "a2"}]

NoResponse ==
    [op |-> "none", transport |-> FALSE, status |-> 0, parsable |-> FALSE,
     success |-> FALSE, errors |-> <<>>, payload |-> NoIP]

\* fmt.Sprintf("%d", n) for n >= 0
RECURSIVE Itoa(_)
Itoa(n) ==
    IF n < 10 THEN <<Digits[n + 1]>>
    ELSE Itoa(n \div 10) \o <<Digits[(n % 10) + 1]>>

\* fmt.Sprintf("Code %d: %s; ", e.Code, e.Message)
ErrorEntry(e) ==
    <<"C", "o", "d", "e", " ">> \o Itoa(e.code) \o <<":", " ">>
        \o e.message \o <<";", " ">>

\* only the first entry of the errors list is reported
ErrorMsg_firstOnly(errors) ==
    IF Len(errors) = 0 THEN <<>> ELSE ErrorEntry(Head(errors))

\* for _, e := range result.Errors { errorMsg += ... }
RECURSIVE ErrorMsg(_)
ErrorMsg(errors) ==
    IF Len(errors) = 0 THEN <<>>
    ELSE ErrorEntry(Head(errors)) \o ErrorMsg(Tail(errors))

\* what a client call returns: an error (kind "nil" for a nil error) and a
\* result (NoIP for none)
ClientReturn(kind, text, res) ==
    [state |-> "returned", err |-> [kind |-> kind, text |-> text],
     result |-> res]

NoVerdict ==
    [state |-> "pending", err |-> [kind |-> "nil", text |-> <<>>],
     result |-> NoIP]

\* the part ListDNSRecords, CreateDNSRecord and UpdateDNSRecord share: the
\* error for a request that failed, a status other than 200, a body that
\* does not decode, or success:false; kind "nil" when none applies
ResponseError(r) ==
    IF ~r.transport THEN [kind |-> "request", text |-> <<>>]
    ELSE IF r.status # StatusOK
    THEN [kind |-> "status", text |-> Itoa(r.status)]
    ELSE IF ~r.parsable THEN [kind |-> "decode", text |-> <<>>]
    ELSE IF ~r.success THEN [kind |-> "api", text |-> ErrorMsg(r.errors)]
    ELSE [kind |-> "nil", text |-> <<>>]

\* ListDNSRecords: return result.Result, nil, or nil and the error
ListReturn(r) ==
    LET e == ResponseError(r) IN
    IF e.kind # "nil" THEN ClientReturn(e.kind, e.text, NoIP)
    ELSE ClientReturn("nil", <<>>, r.payload)

\* CreateDNSRecord: return &result.Result, nil, or nil and the error
CreateReturn(r) ==
    LET e == ResponseError(r) IN
    IF e.kind # "nil" THEN ClientReturn(e.kind, e.text, NoIP)
    ELSE ClientReturn("nil", <<>>, r.payload)

\* UpdateDNSRecord: return nil, or the error, the mismatch of the echoed
\* content included; it returns no result
UpdateReturn(r, content) ==
    LET e == ResponseError(r) IN
    IF e.kind # "nil" THEN ClientReturn(e.kind, e.text, NoIP)
    ELSE IF PutVerdict(r.status, r.success, r.payload, content) = "err"
    THEN ClientReturn("mismatch", <<>>, NoIP)
    ELSE ClientReturn("nil", <<>>, NoIP)

\* no client call is looked at at the level of its HTTP response
ClientIdle ==
    /\ response = NoResponse
    /\ verdict = NoVerdict

(* ------------------------------------- the configuration and the signals *)

\* type Config, with record_type "A"
Cfg(token, zone, name) ==
    [APIToken |-> token, ZoneID |-> zone, RecordName |-> name,
     RecordType |-> RecordType]

\* &Config{RecordType: "A"}: what LoadConfig returns without a usable file
DefaultConfig == Cfg("", "", "")

\* the configuration file: missing or not JSON ("unusable"), or the JSON of a
\* Config
CfgFile(state, content) == [state |-> state, content |-> content]

\* complete configurations: the first one, and the ones that differ from it
\* in the credential, in the record name, in the zone
CompleteConfigs ==
    { Cfg("t1", "z1", "n1"), Cfg("t2", "z1", "n1"),
      Cfg("t1", "z1", "n2"), Cfg("t1", "z2", "n1") }

\* configurations that lack the credential, the zone or the record name
PartialConfigs ==
    { Cfg("", "z1", "n1"), Cfg("t1", "", "n1"), Cfg("t1", "z1", "") }

ConfigFiles ==
    { CfgFile("ok", c) : c \in CompleteConfigs \cup PartialConfigs }
        \cup { CfgFile("unusable", DefaultConfig) }

\* the record types verifyConfig accepts
ValidTypes == {"A", "AAAA"}

\* files with a complete configuration whose record_type is absent, the
\* other valid type, or a type verifyConfig would reject
TypedFiles ==
    { CfgFile("ok", [Cfg("t1", "z1", "n1") EXCEPT !.RecordType = t]) :
        t \in {"", "AAAA", "TXT"} }

\* LoadConfig: the default configuration when the file cannot be read or
\* parsed, its content otherwise, with "A" for an empty record_type
LoadConfig(f) ==
    IF f.state # "ok" THEN DefaultConfig
    ELSE IF f.content.RecordType = ""
    THEN [f.content EXCEPT !.RecordType = RecordType]
    ELSE f.content

\* the test of main and of reloadConfig: a field is missing
Incomplete(c) == c.APIToken = "" \/ c.ZoneID = "" \/ c.RecordName = ""

\* the test of main left to NewCloudflareClient alone
StartupRefused(c) == c.APIToken = ""

\* what interactiveConfig leaves in the file: a complete configuration it
\* has saved, or the file as it was (an empty answer, a failed SaveConfig)
WizardResults(f) == {f} \cup { CfgFile("ok", c) : c \in CompleteConfigs }

\* cfClient before main has built it
NoClient == [apiToken |-> "", id |-> 0]

\* NewCloudflareClient: a new client object holding the token
NewCloudflareClient(token, old) == [apiToken |-> token, id |-> old.id + 1]

\* reloadConfig builds a new client whatever the token
ClientChanged_always(newConfig, oldConfig) == TRUE

\* reloadConfig: newConfig.APIToken != config.APIToken
ClientChanged(newConfig, oldConfig) ==
    newConfig.APIToken # oldConfig.APIToken

\* the zone and name the client calls of a cycle are made with
Place(c) == <<c.ZoneID, c.RecordName>>

Places ==
    { Place(c) : c \in CompleteConfigs \cup PartialConfigs
                        \cup {DefaultConfig} }

\* the signals runDaemon has asked for
StopSignals == {"SIGTERM", "SIGINT"}
Signals == StopSignals \cup {"SIGHUP"}

\* make(chan os.Signal, 1)
SigBuffer == 1

\* signal.Notify delivers without blocking: a signal that finds the channel
\* full replaces the one waiting there
Deliver_replace(ch, sig) ==
    IF Len(ch) < SigBuffer THEN Append(ch, sig) ELSE <<sig>>

\* signal.Notify delivers without blocking: a signal that finds the channel
\* full is dropped
Deliver(ch, sig) == IF Len(ch) < SigBuffer THEN Append(ch, sig) ELSE ch

\* the processes one --daemon start may create, by PID
Pids == 1..MaxProcs

\* the PID file is missing or does not hold a number: getPID returns an error
NoPid == 0

\* no management command has run
NoCommand ==
    [op |-> "none", pc |-> "done", pid |-> NoPid, log |-> <<>>,
     err |-> "nil", n |-> 0]

\* nothing has been started with --daemon and nothing manages a daemon
PidIdle ==
    /\ proc = [p \in Pids |-> "none"]
    /\ pidFile = NoPid
    /\ pending = {}
    /\ mgmt = NoCommand

\* the process is not a daemon: nothing of main has run, no signal, no tick
DaemonIdle ==
    /\ loop = "none"
    /\ startup = FALSE
    /\ sigChan = <<>>
    /\ tickC = FALSE
    /\ file = CfgFile("ok", Cfg("t1", "z1", "n1"))
    /\ config = Cfg("t1", "z1", "n1")
    /\ cfClient = NewCloudflareClient("t1", NoClient)
    /\ zones = [p \in Places |-> <<>>]
    /\ signals = 0
    /\ edits = 0
    /\ tampers = 0
    /\ lost = FALSE
    /\ stopReq = "none"
    /\ reloadReq = "none"

(* ------------------------------------------------------------ the cycle *)

\* var targetRecord *DNSRecord before UpdateDNSRecord has picked one
NoTarget == [id |-> 0, ttl |-> 0]

\* what a cycle has done so far (kept until the next cycle starts)
NewCycle(cur) ==
    [startCur |-> cur, nList |-> 0, nCreate |-> 0, nUpdate |-> 0,
     callFailed |-> FALSE, sawNew |-> FALSE, put |-> "none",
     outcome |-> "none"]

\* the package variables at process start, the name holding the records zone
Start(zone) ==
    /\ records = zone
    /\ nextId = Len(zone) + 1
    /\ addr = [h \in Hosts |-> IF h = 1 THEN "a1" ELSE "a2"]
    /\ currentIP = [h \in Hosts |-> NoIP]
    /\ pc = [h \in Hosts |-> "idle"]
    /\ ip = [h \in Hosts |-> NoIP]
    /\ confirmIP = [h \in Hosts |-> NoIP]
    /\ attempt = [h \in Hosts |-> 0]
    /\ defaultTTL = [h \in Hosts |-> FallbackTTL]
    /\ target = [h \in Hosts |-> NoTarget]
    /\ cyc = [h \in Hosts |-> NewCycle(NoIP)]
    /\ prevObs = [h \in Hosts |-> NoIP]
    /\ changes = 0
    /\ faulty = [h \in Hosts |-> FALSE]
    /\ faultyCycles = 0
    /\ restarts = 0

Init ==
    /\ Start(<<>>)
    /\ ResolverIdle
    /\ ClientIdle
    /\ DaemonIdle
    /\ PidIdle

\* the locals i, defaultTTL and targetRecord of process h
Locals(h, i, ttl, t) ==
    /\ attempt' = [attempt EXCEPT ![h] = i]
    /\ defaultTTL' = [defaultTTL EXCEPT ![h] = ttl]
    /\ target' = [target EXCEPT ![h] = t]

\* checkAndUpdate returns: its locals are gone
Return(h) ==
    /\ pc' = [pc EXCEPT ![h] = "idle"]
    /\ Locals(h, 0, FallbackTTL, NoTarget)

\* the address the cycle that has just ended observed: the first observation
\* when it was enough (no change), the confirmed pair otherwise
Observed(h) ==
    IF cyc[h].outcome = "noop" \/ confirmIP[h] = ip[h] THEN ip[h] ELSE NoIP

\* checkAndUpdate starts: its locals and what the cycle has done so far
Enter(h) ==
    /\ pc[h] = "idle"
    /\ pc' = [pc EXCEPT ![h] = "resolve"]
    /\ prevObs' = [prevObs EXCEPT ![h] = Observed(h)]
    /\ ip' = [ip EXCEPT ![h] = NoIP]
    /\ confirmIP' = [confirmIP EXCEPT ![h] = NoIP]
    /\ cyc' = [cyc EXCEPT ![h] = NewCycle(currentIP[h])]
    /\ UNCHANGED <<records, nextId, addr, currentIP, attempt, defaultTTL,
                   target, changes, restarts, resolverVars, clientVars>>

\* the ticker (or the start of the process) starts checkAndUpdate, and the
\* resolver and the provider answer every call of this cycle
Tick(h) ==
    /\ Enter(h)
    /\ faulty' = [faulty EXCEPT ![h] = FALSE]
    /\ UNCHANGED <<faultyCycles, daemonVars>>

\* the ticker (or the start of the process) starts checkAndUpdate, and calls
\* of this cycle may fail
TickFaulty(h) ==
    /\ Enter(h)
    /\ faultyCycles < MaxFaultyCycles
    /\ faultyCycles' = faultyCycles + 1
    /\ faulty' = [faulty EXCEPT ![h] = TRUE]
    /\ UNCHANGED daemonVars

\* GetPublicIPWithService succeeds in the first retry loop
ResolveOk(h) ==
    /\ pc[h] = "resolve"
    /\ ip' = [ip EXCEPT ![h] = addr[h]]
    /\ IF NoChange(addr[h], currentIP[h])
       THEN /\ Return(h)
            /\ cyc' = [cyc EXCEPT ![h].outcome = "noop"]
       ELSE /\ pc' = [pc EXCEPT ![h] = "confirm"]
            /\ Locals(h, 0, FallbackTTL, NoTarget)
            /\ UNCHANGED cyc
    /\ UNCHANGED <<records, nextId, addr, currentIP, confirmIP, prevObs,
                   changes, restarts, faulty, faultyCycles, resolverVars,
                   clientVars, daemonVars>>

\* GetPublicIPWithService fails in the first retry loop
ResolveFail(h) ==
    /\ pc[h] = "resolve"
    /\ faulty[h]
    /\ IF attempt[h] + 1 < maxRetries
       THEN /\ Locals(h, attempt[h] + 1, FallbackTTL, NoTarget)
            /\ UNCHANGED <<pc, cyc>>
       ELSE /\ Return(h)
            /\ cyc' = [cyc EXCEPT ![h].outcome = "resfail"]
    /\ UNCHANGED <<records, nextId, addr, currentIP, ip, confirmIP, prevObs,
                   changes, restarts, faulty, faultyCycles, resolverVars,
                   clientVars, daemonVars>>

\* the confirming GetPublicIPWithService, 3 seconds later, succeeds
ConfirmOk(h) ==
    /\ pc[h] = "confirm"
    /\ confirmIP' = [confirmIP EXCEPT ![h] = addr[h]]
    /\ IF ConfirmMatches(addr[h], ip[h])
       THEN /\ pc' = [pc EXCEPT ![h] = "list"]
            /\ UNCHANGED <<cyc, attempt, defaultTTL, target>>
       ELSE /\ Return(h)
            /\ cyc' = [cyc EXCEPT ![h].outcome = "mismatch"]
    /\ UNCHANGED <<records, nextId, addr, currentIP, ip, prevObs, changes,
                   restarts, faulty, faultyCycles, resolverVars, clientVars,
                   daemonVars>>

\* the confirming GetPublicIPWithService fails
ConfirmFail(h) ==
    /\ pc[h] = "confirm"
    /\ faulty[h]
    /\ Return(h)
    /\ cyc' = [cyc EXCEPT ![h].outcome = "conffail"]
    /\ UNCHANGED <<records, nextId, addr, currentIP, ip, confirmIP, prevObs,
                   changes, restarts, faulty, faultyCycles, resolverVars,
                   clientVars, daemonVars>>

\* the look for a record that already has the observed content left out
AlreadyPointsHere_never(allRecords, observed) == FALSE

\* checkAndUpdate: a listed record already has the observed content
AlreadyPointsHere(allRecords, observed) == HasContent(allRecords, observed)

\* checkAndUpdate lists the records: GetAllDNSRecords succeeds
ListOk(h) ==
    /\ pc[h] = "list"
    /\ LET allRecords == TypeFilter(records, config.RecordType) IN
       IF AlreadyPointsHere(allRecords, ip[h])
       THEN /\ currentIP' = [currentIP EXCEPT ![h] = ip[h]]
            /\ Return(h)
            /\ cyc' = [cyc EXCEPT ![h].nList = @ + 1,
                                  ![h].outcome = "satisfied"]
       ELSE /\ Locals(h, 0, DefaultTTL(allRecords), NoTarget)
            /\ pc' = [pc EXCEPT ![h] = "uoc_list"]
            /\ cyc' = [cyc EXCEPT ![h].nList = @ + 1]
            /\ UNCHANGED currentIP
    /\ UNCHANGED <<records, nextId, addr, ip, confirmIP, prevObs, changes,
                   restarts, faulty, faultyCycles, resolverVars, clientVars,
                   daemonVars>>

\* checkAndUpdate lists the records: GetAllDNSRecords returns an error
ListFail(h) ==
    /\ pc[h] = "list"
    /\ faulty[h]
    /\ Locals(h, 0, DefaultTTL(<<>>), NoTarget)
    /\ pc' = [pc EXCEPT ![h] = "uoc_list"]
    /\ cyc' = [cyc EXCEPT ![h].nList = @ + 1, ![h].callFailed = TRUE]
    /\ UNCHANGED <<records, nextId, addr, currentIP, ip, confirmIP, prevObs,
                   changes, restarts, faulty, faultyCycles, resolverVars,
                   clientVars, daemonVars>>

\* the retry loop without its bound: a failed attempt is always followed by
\* another one
AttemptFailed_again(h) ==
    /\ Locals(h, attempt[h] + 1, defaultTTL[h], NoTarget)
    /\ pc' = [pc EXCEPT ![h] = "uoc_list"]

\* the retry loop ending the process after its last attempt (a log.Fatal in
\* place of logError and return)
AttemptFailed_fatal(h) ==
    IF attempt[h] + 1 < maxRetries
    THEN /\ Locals(h, attempt[h] + 1, defaultTTL[h], NoTarget)
         /\ pc' = [pc EXCEPT ![h] = "uoc_list"]
    ELSE /\ Locals(h, 0, FallbackTTL, NoTarget)
         /\ pc' = [pc EXCEPT ![h] = "exit"]

\* one attempt of the mutation retry loop has returned an error: the next
\* attempt, or the end of the cycle after the last one
AttemptFailed(h) ==
    IF attempt[h] + 1 < maxRetries
    THEN /\ Locals(h, attempt[h] + 1, defaultTTL[h], NoTarget)
         /\ pc' = [pc EXCEPT ![h] = "uoc_list"]
    ELSE Return(h)

\* the outcome of the cycle once an attempt has failed
FailedOutcome(h) ==
    IF attempt[h] + 1 < maxRetries THEN "none" ELSE "failed"

\* UpdateOrCreateDNSRecord returns nil: on to the re-list of checkAndUpdate
AttemptSucceeded(h) ==
    /\ pc' = [pc EXCEPT ![h] = "verify"]
    /\ Locals(h, 0, FallbackTTL, NoTarget)

\* UpdateOrCreateDNSRecord lists the records: GetAllDNSRecords succeeds
UocListOk(h) ==
    /\ pc[h] = "uoc_list"
    /\ LET d == UOCDecision(TRUE, TypeFilter(records, config.RecordType),
                            ip[h], currentIP[h]) IN
       /\ CASE d = "create" -> /\ pc' = [pc EXCEPT ![h] = "create"]
                               /\ UNCHANGED <<attempt, defaultTTL, target>>
            [] d = "update" -> /\ pc' = [pc EXCEPT ![h] = "upd_list"]
                               /\ UNCHANGED <<attempt, defaultTTL, target>>
            [] d = "skip"   -> AttemptSucceeded(h)
       /\ cyc' = [cyc EXCEPT ![h].nList = @ + 1,
                             ![h].sawNew = @ \/ (d = "skip")]
    /\ UNCHANGED <<records, nextId, addr, currentIP, ip, confirmIP, prevObs,
                   changes, restarts, faulty, faultyCycles, resolverVars,
                   clientVars, daemonVars>>

\* UpdateOrCreateDNSRecord lists the records: GetAllDNSRecords returns an
\* error, and the record is created
UocListFail(h) ==
    /\ pc[h] = "uoc_list"
    /\ faulty[h]
    /\ UOCDecision(FALSE, <<>>, ip[h], currentIP[h]) = "create"
    /\ pc' = [pc EXCEPT ![h] = "create"]
    /\ cyc' = [cyc EXCEPT ![h].nList = @ + 1, ![h].callFailed = TRUE]
    /\ UNCHANGED <<records, nextId, addr, currentIP, ip, confirmIP, attempt,
                   defaultTTL, target, prevObs, changes, restarts, faulty,
                   faultyCycles, resolverVars, clientVars, daemonVars>>

\* CreateDNSRecord: the POST succeeds
CreateOk(h) ==
    /\ pc[h] = "create"
    /\ Len(records) < MaxRecords
    /\ records' = Append(records,
                         Rec(nextId, config.RecordType, ip[h], defaultTTL[h]))
    /\ nextId' = nextId + 1
    /\ AttemptSucceeded(h)
    /\ cyc' = [cyc EXCEPT ![h].nCreate = @ + 1]
    /\ UNCHANGED <<addr, currentIP, ip, confirmIP, prevObs, changes, restarts,
                   faulty, faultyCycles, resolverVars, clientVars, daemonVars>>

\* CreateDNSRecord: the POST fails (transport, status or success:false)
CreateFail(h) ==
    /\ pc[h] = "create"
    /\ faulty[h]
    /\ AttemptFailed(h)
    /\ cyc' = [cyc EXCEPT ![h].nCreate = @ + 1, ![h].callFailed = TRUE,
                          ![h].outcome = FailedOutcome(h)]
    /\ UNCHANGED <<records, nextId, addr, currentIP, ip, confirmIP, prevObs,
                   changes, restarts, faulty, faultyCycles, resolverVars,
                   clientVars, daemonVars>>

\* UpdateDNSRecord lists the records again and picks its target: the first
\* record of the type
UpdListOk(h) ==
    /\ pc[h] = "upd_list"
    /\ LET k == FirstOfType(records, config.RecordType) IN
       IF Len(records) = 0 \/ k = 0
       THEN /\ AttemptFailed(h)
            /\ cyc' = [cyc EXCEPT ![h].nList = @ + 1, ![h].callFailed = TRUE,
                                  ![h].outcome = FailedOutcome(h)]
       ELSE IF records[k].content = ip[h]
       THEN /\ AttemptSucceeded(h)
            /\ cyc' = [cyc EXCEPT ![h].nList = @ + 1, ![h].sawNew = TRUE]
       ELSE /\ Locals(h, attempt[h], defaultTTL[h],
                      [id |-> records[k].id, ttl |-> records[k].ttl])
            /\ pc' = [pc EXCEPT ![h] = "upd_put"]
            /\ cyc' = [cyc EXCEPT ![h].nList = @ + 1]
    /\ UNCHANGED <<records, nextId, addr, currentIP, ip, confirmIP, prevObs,
                   changes, restarts, faulty, faultyCycles, resolverVars,
                   clientVars, daemonVars>>

\* UpdateDNSRecord: ListDNSRecords returns an error
UpdListFail(h) ==
    /\ pc[h] = "upd_list"
    /\ faulty[h]
    /\ AttemptFailed(h)
    /\ cyc' = [cyc EXCEPT ![h].nList = @ + 1, ![h].callFailed = TRUE,
                          ![h].outcome = FailedOutcome(h)]
    /\ UNCHANGED <<records, nextId, addr, currentIP, ip, confirmIP, prevObs,
                   changes, restarts, faulty, faultyCycles, resolverVars,
                   clientVars, daemonVars>>

\* UpdateDNSRecord: the PUT on targetRecord.ID carries the new content and
\* targetRecord.TTL; the provider echoes the content it stored
UpdPutOk(h) ==
    /\ pc[h] = "upd_put"
    /\ IF HasId(records, target[h].id)
       THEN /\ LET req == UpdateReq(ip[h], target[h]) IN
               records' = PutRecord(records, target[h].id, req.content,
                                    req.ttl)
            /\ AttemptSucceeded(h)
            /\ cyc' = [cyc EXCEPT ![h].nUpdate = @ + 1, ![h].put = "applied"]
       ELSE /\ AttemptFailed(h)
            /\ cyc' = [cyc EXCEPT ![h].nUpdate = @ + 1,
                                  ![h].callFailed = TRUE,
                                  ![h].put = "error",
                                  ![h].outcome = FailedOutcome(h)]
            /\ UNCHANGED records
    /\ UNCHANGED <<nextId, addr, currentIP, ip, confirmIP, prevObs, changes,
                   restarts, faulty, faultyCycles, resolverVars, clientVars,
                   daemonVars>>

\* UpdateDNSRecord: the PUT fails (transport, status or success:false)
UpdPutFail(h) ==
    /\ pc[h] = "upd_put"
    /\ faulty[h]
    /\ AttemptFailed(h)
    /\ cyc' = [cyc EXCEPT ![h].nUpdate = @ + 1, ![h].callFailed = TRUE,
                          ![h].put = "error",
                          ![h].outcome = FailedOutcome(h)]
    /\ UNCHANGED <<records, nextId, addr, currentIP, ip, confirmIP, prevObs,
                   changes, restarts, faulty, faultyCycles, resolverVars,
                   clientVars, daemonVars>>

\* UpdateDNSRecord: the PUT is answered with status 200 and success:true, but
\* the write has not taken effect and the response echoes the content the
\* record still has
UpdPutMismatch(h) ==
    /\ pc[h] = "upd_put"
    /\ faulty[h]
    /\ HasId(records, target[h].id)
    /\ LET echoed == ContentOf(records, target[h].id) IN
       /\ echoed # ip[h]
       /\ IF PutVerdict(StatusOK, TRUE, echoed, ip[h]) = "ok"
          THEN /\ AttemptSucceeded(h)
               /\ cyc' = [cyc EXCEPT ![h].nUpdate = @ + 1,
                                     ![h].put = "mismatch"]
          ELSE /\ AttemptFailed(h)
               /\ cyc' = [cyc EXCEPT ![h].nUpdate = @ + 1,
                                     ![h].callFailed = TRUE,
                                     ![h].put = "mismatch",
                                     ![h].outcome = FailedOutcome(h)]
    /\ UNCHANGED <<records, nextId, addr, currentIP, ip, confirmIP, prevObs,
                   changes, restarts, faulty, faultyCycles, resolverVars,
                   clientVars, daemonVars>>

\* currentIP = ip forgotten at the end of checkAndUpdate
AfterVerify_keep(found, observed, cur) == cur

\* checkAndUpdate after the re-list: currentIP = ip, found or not
AfterVerify(found, observed, cur) == observed

\* checkAndUpdate re-lists the records after the mutation: the list succeeds
VerifyOk(h) ==
    /\ pc[h] = "verify"
    /\ LET found == HasContent(TypeFilter(records, config.RecordType), ip[h]) IN
       /\ currentIP' = [currentIP EXCEPT ![h] =
                           AfterVerify(found, ip[h], currentIP[h])]
       /\ cyc' = [cyc EXCEPT ![h].nList = @ + 1,
                             ![h].outcome = IF found THEN "applied"
                                            ELSE "unverified"]
    /\ Return(h)
    /\ UNCHANGED <<records, nextId, addr, ip, confirmIP, prevObs, changes,
                   restarts, faulty, faultyCycles, resolverVars, clientVars,
                   daemonVars>>

\* checkAndUpdate re-lists the records after the mutation: the list fails
VerifyFail(h) ==
    /\ pc[h] = "verify"
    /\ faulty[h]
    /\ currentIP' = [currentIP EXCEPT ![h] =
                        AfterVerify(FALSE, ip[h], currentIP[h])]
    /\ cyc' = [cyc EXCEPT ![h].nList = @ + 1, ![h].callFailed = TRUE,
                          ![h].outcome = "applied"]
    /\ Return(h)
    /\ UNCHANGED <<records, nextId, addr, ip, confirmIP, prevObs, changes,
                   restarts, faulty, faultyCycles, resolverVars, clientVars,
                   daemonVars>>

\* the process ends between two cycles and a new one starts (a restart of the
\* daemon, or the next --once run): the package variables start from zero
Restart(h) ==
    /\ pc[h] = "idle"
    /\ restarts < MaxRestarts
    /\ restarts' = restarts + 1
    /\ currentIP' = [currentIP EXCEPT ![h] = NoIP]
    /\ ip' = [ip EXCEPT ![h] = NoIP]
    /\ confirmIP' = [confirmIP EXCEPT ![h] = NoIP]
    /\ cyc' = [cyc EXCEPT ![h] = NewCycle(NoIP)]
    /\ prevObs' = [prevObs EXCEPT ![h] = NoIP]
    /\ UNCHANGED <<records, nextId, addr, pc, attempt, defaultTTL, target,
                   changes, faulty, faultyCycles, resolverVars, clientVars,
                   daemonVars>>

\* the public address of a host changes
ChangeAddr(h) ==
    /\ changes < MaxChanges
    /\ changes' = changes + 1
    /\ \E a \in Addrs \ {addr[h]} : addr' = [addr EXCEPT ![h] = a]
    /\ UNCHANGED <<records, nextId, currentIP, pc, ip, confirmIP, attempt,
                   defaultTTL, target, cyc, prevObs, restarts, faulty,
                   faultyCycles, resolverVars, clientVars, daemonVars>>

Next ==
    \E h \in Hosts :
        \/ Tick(h)
        \/ TickFaulty(h)
        \/ ResolveOk(h)
        \/ ResolveFail(h)
        \/ ConfirmOk(h)
        \/ ConfirmFail(h)
        \/ ListOk(h)
        \/ ListFail(h)
        \/ UocListOk(h)
        \/ UocListFail(h)
        \/ CreateOk(h)
        \/ CreateFail(h)
        \/ UpdListOk(h)
        \/ UpdListFail(h)
        \/ UpdPutOk(h)
        \/ UpdPutFail(h)
        \/ UpdPutMismatch(h)
        \/ VerifyOk(h)
        \/ VerifyFail(h)
        \/ Restart(h)
        \/ ChangeAddr(h)

Spec == Init /\ [][Next]_vars

(* ------------------------------------------- a zone that has records *)

\* what the name holds before the first host starts: nothing, a record of
\* another type, a record of the type left by someone else, or two records of
\* the type with different TTLs
InitialZones ==
    { <<>>,
      <<Rec(1, "AAAA", "v6", 600)>>,
      <<Rec(1, RecordType, "a3", 600)>>,
      <<Rec(1, RecordType, "a1", 600), Rec(2, RecordType, "a2", 3600)>> }

InitZone ==
    /\ \E zone \in InitialZones : Start(zone)
    /\ ResolverIdle
    /\ ClientIdle
    /\ DaemonIdle
    /\ PidIdle

SpecZone == InitZone /\ [][Next]_vars

(* ------------------------------------------- the resolver, step by step *)

\* a call of GetPublicIPWithService starts, the endpoints answering anything
InitResolver ==
    /\ Start(<<>>)
    /\ ClientIdle
    /\ DaemonIdle
    /\ PidIdle
    /\ answer \in [ServiceSet -> Answers]
    /\ queried = <<>>
    /\ lastErr = NoErr
    /\ scan = 0
    /\ result = Returned("pending", Nil, "", NoErr)

\* GetPublicIPWithService queries ic.primaryService
GetIPPrimary ==
    /\ result.state = "pending"
    /\ scan = 0
    /\ queried' = Append(queried, primaryService)
    /\ LET r == getIPFromService(primaryService) IN
       IF Accepted(r)
       THEN /\ result' = Returned("ok", r.ip, primaryService, NoErr)
            /\ UNCHANGED scan
       ELSE /\ scan' = 1
            /\ UNCHANGED result
    /\ UNCHANGED <<answer, lastErr, programVars, clientVars, daemonVars>>

\* the loop over ic.services passes the primary service: continue
GetIPSkip ==
    /\ result.state = "pending"
    /\ scan \in 1..Len(services)
    /\ services[scan] = primaryService
    /\ scan' = scan + 1
    /\ UNCHANGED <<answer, queried, lastErr, result, programVars, clientVars,
                   daemonVars>>

\* the loop over ic.services queries the next backup service
GetIPBackup ==
    /\ result.state = "pending"
    /\ scan \in 1..Len(services)
    /\ services[scan] # primaryService
    /\ queried' = Append(queried, services[scan])
    /\ LET r == getIPFromService(services[scan]) IN
       IF Accepted(r)
       THEN /\ result' = Returned("ok", r.ip, services[scan], NoErr)
            /\ UNCHANGED <<scan, lastErr>>
       ELSE /\ lastErr' = r.err
            /\ scan' = scan + 1
            /\ UNCHANGED result
    /\ UNCHANGED <<answer, programVars, clientVars, daemonVars>>

\* the loop is over: the error that carries lastErr
GetIPAllFailed ==
    /\ result.state = "pending"
    /\ scan = Len(services) + 1
    /\ result' = Returned("failed", Nil, "", lastErr)
    /\ UNCHANGED <<answer, queried, lastErr, scan, programVars, clientVars,
                   daemonVars>>

NextResolver ==
    \/ GetIPPrimary
    \/ GetIPSkip
    \/ GetIPBackup
    \/ GetIPAllFailed

ResolverSpec == InitResolver /\ [][NextResolver]_vars

(* ----------------------------------------- the client calls, one response *)

\* a client call has sent its request and the provider answers anything
InitClient ==
    /\ Start(<<>>)
    /\ ResolverIdle
    /\ DaemonIdle
    /\ PidIdle
    /\ response \in Responses
    /\ verdict = NoVerdict

\* ListDNSRecords returns
ListDNSRecordsReturns ==
    /\ verdict.state = "pending"
    /\ response.op = "list"
    /\ verdict' = ListReturn(response)
    /\ UNCHANGED <<response, programVars, resolverVars, daemonVars>>

\* CreateDNSRecord returns
CreateDNSRecordReturns ==
    /\ verdict.state = "pending"
    /\ response.op = "create"
    /\ verdict' = CreateReturn(response)
    /\ UNCHANGED <<response, programVars, resolverVars, daemonVars>>

\* UpdateDNSRecord, asked to set the content a1, returns
UpdateDNSRecordReturns ==
    /\ verdict.state = "pending"
    /\ response.op = "update"
    /\ verdict' = UpdateReturn(response, "a1")
    /\ UNCHANGED <<response, programVars, resolverVars, daemonVars>>

NextClient ==
    \/ ListDNSRecordsReturns
    \/ CreateDNSRecordReturns
    \/ UpdateDNSRecordReturns

ClientSpec == InitClient /\ [][NextClient]_vars

(* ---------------------------------------------------- fair specification *)

\* the steps of process h when the resolver and the provider answer
HostStep(h) ==
    \/ Tick(h)
    \/ ResolveOk(h)
    \/ ConfirmOk(h)
    \/ ListOk(h)
    \/ UocListOk(h)
    \/ CreateOk(h)
    \/ UpdListOk(h)
    \/ UpdPutOk(h)
    \/ VerifyOk(h)

NextLive ==
    \E h \in Hosts :
        \/ HostStep(h)
        \/ ChangeAddr(h)

\* every call returns and the ticker keeps firing: a process that can take
\* a step takes it; the addresses change at most MaxChanges times
FairSpec ==
    Init /\ [][NextLive]_vars /\ \A h \in Hosts : WF_vars(HostStep(h))

(* ------------------------------------------- the daemon: main, runDaemon *)

\* the variables of checkAndUpdate without the records
cycleVars == <<nextId, addr, currentIP, pc, ip, confirmIP, attempt,
               defaultTTL, target, cyc, prevObs, changes, faulty,
               faultyCycles, restarts>>

\* the process is started with --once or --daemon on any configuration file
InitDaemon ==
    /\ Start(<<>>)
    /\ ResolverIdle
    /\ ClientIdle
    /\ PidIdle
    /\ loop = "main"
    /\ startup = FALSE
    /\ sigChan = <<>>
    /\ tickC = FALSE
    /\ file \in ConfigFiles
    /\ config = DefaultConfig
    /\ cfClient = NoClient
    /\ zones = [p \in Places |-> <<>>]
    /\ signals = 0
    /\ edits = 0
    /\ tampers = 0
    /\ lost = FALSE
    /\ stopReq = "none"
    /\ reloadReq = "none"

\* checkAndUpdate is called; f: calls of this cycle may fail
StartCycle(f) ==
    /\ Enter(1)
    /\ faulty' = [faulty EXCEPT ![1] = f]
    /\ IF f
       THEN /\ faultyCycles < MaxFaultyCycles
            /\ faultyCycles' = faultyCycles + 1
       ELSE UNCHANGED faultyCycles

\* main loads the configuration, runs interactiveConfig when a field is
\* missing, and loads the configuration again
MainLoad ==
    /\ loop = "main"
    /\ IF Incomplete(LoadConfig(file))
       THEN \E f \in WizardResults(file) : file' = f
       ELSE file' = file
    /\ config' = LoadConfig(file')

\* main: NewCloudflareClient returns an error and main calls os.Exit(1)
MainFatal ==
    /\ MainLoad
    /\ StartupRefused(config')
    /\ loop' = "fatal"
    /\ UNCHANGED <<programVars, resolverVars, clientVars, pidVars,
                   startup, sigChan, tickC, cfClient, zones, signals, edits,
                   tampers, lost,
                   stopReq, reloadReq>>

\* main --once: runOnce calls checkAndUpdate
MainOnce(f) ==
    /\ MainLoad
    /\ ~StartupRefused(config')
    /\ cfClient' = NewCloudflareClient(config'.APIToken, cfClient)
    /\ loop' = "once"
    /\ StartCycle(f)
    /\ UNCHANGED pidVars
    /\ UNCHANGED <<startup, sigChan, tickC, zones, signals, edits, tampers,
                   lost, stopReq, reloadReq>>

\* main --daemon (already a daemon): runDaemon registers the signals and
\* calls checkAndUpdate
MainDaemon(f) ==
    /\ MainLoad
    /\ ~StartupRefused(config')
    /\ cfClient' = NewCloudflareClient(config'.APIToken, cfClient)
    /\ loop' = "run"
    /\ startup' = TRUE
    /\ StartCycle(f)
    /\ UNCHANGED pidVars
    /\ UNCHANGED <<sigChan, tickC, zones, signals, edits, tampers, lost,
                   stopReq, reloadReq>>

\* the calls checkAndUpdate makes, one by one, until it returns
CycleStep ==
    /\ loop \in {"once", "run"}
    /\ \/ ResolveOk(1)
       \/ ResolveFail(1)
       \/ ConfirmOk(1)
       \/ ConfirmFail(1)
       \/ ListOk(1)
       \/ ListFail(1)
       \/ UocListOk(1)
       \/ UocListFail(1)
       \/ CreateOk(1)
       \/ CreateFail(1)
       \/ UpdListOk(1)
       \/ UpdListFail(1)
       \/ UpdPutOk(1)
       \/ UpdPutFail(1)
       \/ UpdPutMismatch(1)
       \/ VerifyOk(1)
       \/ VerifyFail(1)

\* runOnce returns and main calls os.Exit(0)
OnceExit ==
    /\ loop = "once"
    /\ pc[1] = "idle"
    /\ loop' = "exited"
    /\ UNCHANGED <<programVars, resolverVars, clientVars, pidVars,
                   startup, sigChan, tickC, file, config, cfClient, zones,
                   signals, edits,
                   tampers, lost, stopReq, reloadReq>>

\* runDaemon is at its select only between two calls of checkAndUpdate
Selecting_anytime(at, position) == at = "run"

\* runDaemon is at its select: checkAndUpdate has returned
Selecting(at, position) == at = "run" /\ position = "idle"

\* case <-ticker.C: checkAndUpdate
ReceiveTick(f) ==
    /\ Selecting(loop, pc[1])
    /\ tickC
    /\ tickC' = FALSE
    /\ startup' = FALSE
    /\ StartCycle(f)
    /\ UNCHANGED pidVars
    /\ UNCHANGED <<loop, sigChan, file, config, cfClient, zones, signals,
                   edits, tampers, lost, stopReq, reloadReq>>

\* case sig := <-sigChan, SIGTERM or os.Interrupt: return
ReceiveStop ==
    /\ Selecting(loop, pc[1])
    /\ sigChan # <<>>
    /\ Head(sigChan) \in StopSignals
    /\ sigChan' = Tail(sigChan)
    /\ loop' = "exited"
    /\ UNCHANGED <<programVars, resolverVars, clientVars, pidVars,
                   startup, tickC,
                   file, config, cfClient, zones, signals, edits, tampers,
                   lost, stopReq, reloadReq>>

\* the client calls of the next cycles go to the zone and name of newConfig
Repoint(oldConfig, newConfig) ==
    IF Place(oldConfig) = Place(newConfig)
    THEN UNCHANGED <<records, zones>>
    ELSE /\ records' = zones[Place(newConfig)]
         /\ zones' = [zones EXCEPT ![Place(oldConfig)] = records,
                                   ![Place(newConfig)] = <<>>]

\* reloadConfig
reloadConfig ==
    LET newConfig == LoadConfig(file) IN
    IF Incomplete(newConfig)
    THEN UNCHANGED <<config, cfClient, records, zones>>
    ELSE /\ cfClient' = IF ClientChanged(newConfig, config)
                        THEN NewCloudflareClient(newConfig.APIToken, cfClient)
                        ELSE cfClient
         /\ config' = newConfig
         /\ Repoint(config, newConfig)

\* case sig := <-sigChan, SIGHUP: reloadConfig (nothing sends on reloadChan,
\* so its case never runs)
ReceiveReload ==
    /\ Selecting(loop, pc[1])
    /\ sigChan # <<>>
    /\ Head(sigChan) = "SIGHUP"
    /\ sigChan' = Tail(sigChan)
    /\ reloadConfig
    /\ reloadReq' = "none"
    /\ UNCHANGED <<cycleVars, resolverVars, clientVars, pidVars,
                   loop, startup, tickC,
                   file, signals, edits, tampers, lost, stopReq>>

\* a signal is sent to the daemon once runDaemon has called signal.Notify
Signal(sig) ==
    /\ loop = "run"
    /\ signals < MaxSignals
    /\ signals' = signals + 1
    /\ sigChan' = Deliver(sigChan, sig)
    /\ stopReq' = IF sig \notin StopSignals THEN stopReq
                  ELSE IF pc[1] # "idle" THEN "cycle"
                  ELSE IF stopReq = "none" THEN "idle"
                  ELSE stopReq
    /\ reloadReq' = IF sig = "SIGHUP" /\ pc[1] # "idle"
                    THEN IF \E k \in 1..Len(sigChan') : sigChan'[k] = "SIGHUP"
                         THEN "queued"
                         ELSE "lost"
                    ELSE reloadReq
    /\ UNCHANGED <<programVars, resolverVars, clientVars, pidVars,
                   loop, startup,
                   tickC, file, config, cfClient, zones, edits, tampers, lost>>

\* the select has a case that can proceed
Ready == tickC \/ sigChan # <<>>

\* time.NewTicker(5 * time.Second), created when the first checkAndUpdate
\* has returned: a tick that finds ticker.C full is dropped.  5 seconds pass
\* during a cycle or while the select blocks, not while the select has a
\* case that can proceed
TickerFires ==
    /\ loop = "run"
    /\ ~(startup /\ pc[1] # "idle")
    /\ pc[1] # "idle" \/ ~Ready
    /\ IF tickC
       THEN lost' = TRUE /\ UNCHANGED tickC
       ELSE tickC' = TRUE /\ UNCHANGED lost
    /\ UNCHANGED <<programVars, resolverVars, clientVars, pidVars,
                   loop, startup,
                   sigChan, file, config, cfClient, zones, signals, edits,
                   tampers, stopReq, reloadReq>>

\* the configuration file is rewritten while the daemon runs
WriteConfig ==
    /\ loop = "run"
    /\ edits < MaxEdits
    /\ edits' = edits + 1
    /\ \E f \in ConfigFiles \ {file} : file' = f
    /\ UNCHANGED <<programVars, resolverVars, clientVars, pidVars,
                   loop, startup,
                   sigChan, tickC, config, cfClient, zones, signals, tampers,
                   lost, stopReq, reloadReq>>

\* once a cycle has ended with currentIP the address of the host, another
\* actor deletes a record at the configured name or overwrites its content
Tamper ==
    /\ loop = "run"
    /\ pc[1] = "idle"
    /\ cyc[1].outcome # "none"
    /\ currentIP[1] = addr[1]
    /\ tampers < MaxTampers
    /\ tampers' = tampers + 1
    /\ \E k \in 1..Len(records) :
          \/ records' = SubSeq(records, 1, k - 1)
                            \o SubSeq(records, k + 1, Len(records))
          \/ /\ records[k].content # "a3"
             /\ records' = PutRecord(records, records[k].id, "a3",
                                     records[k].ttl)
    /\ UNCHANGED <<cycleVars, resolverVars, clientVars, pidVars,
                   loop, startup,
                   sigChan, tickC, file, config, cfClient, zones, signals,
                   edits, lost, stopReq, reloadReq>>

\* the address of the host changes between the two observations of a cycle
\* (the change the scheduler sees: a cycle that ends in a mismatch)
AddrFlips ==
    /\ pc[1] = "confirm"
    /\ ChangeAddr(1)

NextDaemon ==
    \/ MainFatal
    \/ \E f \in BOOLEAN : MainOnce(f)
    \/ \E f \in BOOLEAN : MainDaemon(f)
    \/ CycleStep
    \/ OnceExit
    \/ \E f \in BOOLEAN : ReceiveTick(f)
    \/ ReceiveStop
    \/ ReceiveReload
    \/ \E sig \in Signals : Signal(sig)
    \/ TickerFires
    \/ WriteConfig
    \/ AddrFlips

DaemonSpec == InitDaemon /\ [][NextDaemon]_vars

(* ------------------------------------------ the daemon, fair specification *)

\* the calls checkAndUpdate makes when the resolver and the provider answer
CycleStepOk ==
    /\ loop = "run"
    /\ \/ ResolveOk(1)
       \/ ConfirmOk(1)
       \/ ListOk(1)
       \/ UocListOk(1)
       \/ CreateOk(1)
       \/ UpdListOk(1)
       \/ UpdPutOk(1)
       \/ VerifyOk(1)

\* main --daemon returns from its startup code
MainStep == MainFatal \/ MainDaemon(FALSE)

NextDaemonLive ==
    \/ MainStep
    \/ CycleStepOk
    \/ ReceiveTick(FALSE)
    \/ ReceiveStop
    \/ ReceiveReload
    \/ \E sig \in Signals : Signal(sig)
    \/ TickerFires
    \/ WriteConfig
    \/ Tamper

\* every call returns, the ticker keeps firing, and the select, which picks
\* among the cases that can proceed at random, does not pass over a case
\* for ever
FairDaemonSpec ==
    /\ InitDaemon
    /\ [][NextDaemonLive]_vars
    /\ WF_vars(MainStep)
    /\ WF_vars(CycleStepOk)
    /\ WF_vars(TickerFires)
    /\ SF_vars(ReceiveTick(FALSE))
    /\ SF_vars(ReceiveStop)
    /\ SF_vars(ReceiveReload)

(* ------------------------------------------------- the interactive menu *)

\* the variables of runDaemon's select and of its environment
schedVars == <<startup, sigChan, tickC, zones, signals, edits, tampers, lost,
               stopReq, reloadReq>>

\* the process is started without a mode flag on any configuration file
InitInteractive ==
    /\ Start(<<>>)
    /\ ResolverIdle
    /\ ClientIdle
    /\ PidIdle
    /\ loop = "main"
    /\ startup = FALSE
    /\ sigChan = <<>>
    /\ tickC = FALSE
    /\ file \in ConfigFiles \cup TypedFiles
    /\ config = DefaultConfig
    /\ cfClient = NoClient
    /\ zones = [p \in Places |-> <<>>]
    /\ signals = 0
    /\ edits = 0
    /\ tampers = 0
    /\ lost = FALSE
    /\ stopReq = "none"
    /\ reloadReq = "none"

\* main without a mode flag: runInteractive shows the menu
MainMenu ==
    /\ MainLoad
    /\ ~StartupRefused(config')
    /\ cfClient' = NewCloudflareClient(config'.APIToken, cfClient)
    /\ loop' = "menu"
    /\ UNCHANGED <<programVars, resolverVars, clientVars, pidVars, schedVars>>

\* cfClient, _ = NewCloudflareClient(token): nil when the token is empty
ClientOrNil(token, old) ==
    IF token = "" THEN NoClient ELSE NewCloudflareClient(token, old)

\* menu choice 5: interactiveConfig, LoadConfig, NewCloudflareClient
MenuConfig ==
    /\ loop = "menu"
    /\ cfClient.id < MaxClients
    /\ \E f \in WizardResults(file) : file' = f
    /\ config' = LoadConfig(file')
    /\ cfClient' = ClientOrNil(config'.APIToken, cfClient)
    /\ UNCHANGED <<loop, programVars, resolverVars, clientVars, pidVars,
                   schedVars>>

\* verifyConfig builds the client when there is none
VerifiedClient(c, client) ==
    IF ~Incomplete(c) /\ c.RecordType \in ValidTypes /\ client = NoClient
    THEN NewCloudflareClient(c.APIToken, client)
    ELSE client

\* menu choice 6, startBackgroundDaemon, as far as the configuration and the
\* client go (the process it spawns is the one of the --daemon start).
\* existing: a daemon process was found, so the configuration file is
\* deleted, config and cfClient are cleared and interactiveConfig runs
MenuStartDaemon(existing) ==
    /\ loop = "menu"
    /\ cfClient.id < MaxClients
    /\ IF existing
       THEN /\ \E f \in WizardResults(CfgFile("unusable", DefaultConfig)) :
                  file' = f
            /\ config' = LoadConfig(file')
            /\ cfClient' = IF Incomplete(config') THEN NoClient
                           ELSE NewCloudflareClient(config'.APIToken,
                                                    NoClient)
       ELSE IF Incomplete(config)
       THEN /\ \E f \in WizardResults(file) : file' = f
            /\ config' = LoadConfig(file')
            /\ cfClient' = IF Incomplete(config') THEN cfClient
                           ELSE NewCloudflareClient(config'.APIToken,
                                                    cfClient)
       ELSE /\ UNCHANGED <<file, config>>
            /\ cfClient' = VerifiedClient(config, cfClient)
    /\ UNCHANGED <<loop, programVars, resolverVars, clientVars, pidVars,
                   schedVars>>

\* menu choice 1: startMonitoring calls checkAndUpdate
MenuMonitor(f) ==
    /\ loop = "menu"
    /\ loop' = "monitor"
    /\ StartCycle(f)
    /\ UNCHANGED <<file, config, cfClient, pidVars, schedVars>>

\* the calls checkAndUpdate makes under startMonitoring: the resolutions,
\* and the client calls when there is a client to make them on
MonitorStep ==
    /\ loop = "monitor"
    /\ \/ ResolveOk(1)
       \/ ResolveFail(1)
       \/ ConfirmOk(1)
       \/ ConfirmFail(1)
       \/ /\ cfClient # NoClient
          /\ \/ ListOk(1)
             \/ ListFail(1)
             \/ UocListOk(1)
             \/ UocListFail(1)
             \/ CreateOk(1)
             \/ CreateFail(1)
             \/ UpdListOk(1)
             \/ UpdListFail(1)
             \/ UpdPutOk(1)
             \/ UpdPutFail(1)
             \/ UpdPutMismatch(1)
             \/ VerifyOk(1)
             \/ VerifyFail(1)

\* cfClient.GetAllDNSRecords on a nil client: makeRequest reads c.baseURL
\* and the process panics
MonitorPanic ==
    /\ loop = "monitor"
    /\ pc[1] = "list"
    /\ cfClient = NoClient
    /\ loop' = "panic"
    /\ UNCHANGED <<programVars, resolverVars, clientVars, pidVars, schedVars,
                   file, config, cfClient>>

\* startMonitoring, case <-ticker.C: checkAndUpdate
MonitorTick(f) ==
    /\ loop = "monitor"
    /\ pc[1] = "idle"
    /\ StartCycle(f)
    /\ UNCHANGED <<loop, file, config, cfClient, pidVars, schedVars>>

\* startMonitoring, case <-sigChan: back to the menu
MonitorStop ==
    /\ loop = "monitor"
    /\ pc[1] = "idle"
    /\ loop' = "menu"
    /\ UNCHANGED <<programVars, resolverVars, clientVars, pidVars, schedVars,
                   file, config, cfClient>>

\* menu choice 3: updateDNSNow is called
MenuUpdate ==
    /\ loop = "menu"
    /\ loop' = "update"
    /\ UNCHANGED <<programVars, resolverVars, clientVars, pidVars, schedVars,
                   file, config, cfClient>>

\* what the calls of updateDNSNow and viewDNSRecords may do
CallResults == {"resfail", "callfail", "ok"}

\* updateDNSNow: the resolution, then cfClient.UpdateDNSRecord on the first
\* record of the configured type
UpdateNowReturns(res) ==
    /\ loop = "update"
    /\ IF res = "resfail"
       THEN loop' = "menu" /\ UNCHANGED <<records, currentIP>>
       ELSE IF cfClient = NoClient
       THEN loop' = "panic" /\ UNCHANGED <<records, currentIP>>
       ELSE /\ loop' = "menu"
            /\ LET k == FirstOfType(records, config.RecordType) IN
               IF res = "callfail" \/ Len(records) = 0 \/ k = 0
               THEN UNCHANGED <<records, currentIP>>
               ELSE IF records[k].content = addr[1]
               THEN /\ currentIP' = [currentIP EXCEPT ![1] = addr[1]]
                    /\ UNCHANGED records
               ELSE /\ LET req == UpdateReq(addr[1], records[k]) IN
                       records' = PutRecord(records, records[k].id,
                                            req.content, req.ttl)
                    /\ currentIP' = [currentIP EXCEPT ![1] = addr[1]]
    /\ UNCHANGED <<nextId, addr, pc, ip, confirmIP, attempt, defaultTTL,
                   target, cyc, prevObs, changes, faulty, faultyCycles,
                   restarts, resolverVars, clientVars, pidVars, schedVars,
                   file, config, cfClient>>

\* menu choice 4: viewDNSRecords is called
MenuView ==
    /\ loop = "menu"
    /\ loop' = "view"
    /\ UNCHANGED <<programVars, resolverVars, clientVars, pidVars, schedVars,
                   file, config, cfClient>>

\* viewDNSRecords: cfClient.ListDNSRecords and the table
ViewReturns ==
    /\ loop = "view"
    /\ loop' = IF cfClient = NoClient THEN "panic" ELSE "menu"
    /\ UNCHANGED <<programVars, resolverVars, clientVars, pidVars, schedVars,
                   file, config, cfClient>>

\* menu choice 8: os.Exit(0)
MenuExit ==
    /\ loop = "menu"
    /\ loop' = "exited"
    /\ UNCHANGED <<programVars, resolverVars, clientVars, pidVars, schedVars,
                   file, config, cfClient>>

NextInteractive ==
    \/ MainFatal
    \/ MainMenu
    \/ MenuConfig
    \/ \E existing \in BOOLEAN : MenuStartDaemon(existing)
    \/ \E f \in BOOLEAN : MenuMonitor(f)
    \/ MonitorStep
    \/ MonitorPanic
    \/ \E f \in BOOLEAN : MonitorTick(f)
    \/ MonitorStop
    \/ MenuUpdate
    \/ \E res \in CallResults : UpdateNowReturns(res)
    \/ MenuView
    \/ ViewReturns
    \/ MenuExit
    \/ AddrFlips

InteractiveSpec == InitInteractive /\ [][NextInteractive]_vars

(* ------------------- the --daemon start and the management commands *)

\* process p has not ended
Alive(p) == proc[p] \in {"main", "spawned", "saved", "run"}

\* every process is reported as running
isProcessRunning_always(pid) == TRUE

\* isProcessRunning: signal 0 can be sent to the process
isProcessRunning(pid) == pid \in Pids /\ Alive(pid)

\* os.Getppid() != 1 in process p: the process that started it (the shell,
\* for the first one) has not ended
ParentAlive(p) == IF p = 1 THEN TRUE ELSE Alive(p - 1)

\* ./dns_manager --daemon is typed in a shell: process 1 is in main
InitPid ==
    /\ Start(<<>>)
    /\ ResolverIdle
    /\ ClientIdle
    /\ DaemonIdle
    /\ proc = [p \in Pids |-> IF p = 1 THEN "main" ELSE "none"]
    /\ pidFile = NoPid
    /\ pending = {}
    /\ mgmt = NoCommand

\* everything but the processes, the PID file and the management command
otherVars == <<programVars, resolverVars, clientVars, loop, schedVars, file,
               config, cfClient>>

\* main --daemon in process p sees os.Getppid() != 1, and daemonize starts
\* the executable again with the same arguments (the last process the bound
\* allows waits instead)
Spawn(p) ==
    /\ proc[p] = "main"
    /\ ParentAlive(p)
    /\ p < MaxProcs
    /\ proc' = [proc EXCEPT ![p] = "spawned", ![p + 1] = "main"]
    /\ UNCHANGED <<pidFile, pending, mgmt, otherVars>>

\* daemonize: savePID(cmd.Process.Pid)
SavePID(p) ==
    /\ proc[p] = "spawned"
    /\ pidFile' = p + 1
    /\ proc' = [proc EXCEPT ![p] = "saved"]
    /\ UNCHANGED <<pending, mgmt, otherVars>>

\* daemonize: os.Exit(0)
ExitParent(p) ==
    /\ proc[p] = "saved"
    /\ proc' = [proc EXCEPT ![p] = "exited"]
    /\ UNCHANGED <<pidFile, pending, mgmt, otherVars>>

\* main --daemon in process p sees os.Getppid() == 1: runDaemon
RunDaemon(p) ==
    /\ proc[p] = "main"
    /\ ~ParentAlive(p)
    /\ proc' = [proc EXCEPT ![p] = "run"]
    /\ UNCHANGED <<pidFile, pending, mgmt, otherVars>>

\* a SIGTERM reaches process p: runDaemon returns, and a process that has
\* not called signal.Notify yet is killed
TermDelivered(p) ==
    /\ p \in pending
    /\ Alive(p)
    /\ proc' = [proc EXCEPT ![p] = IF proc[p] = "run" THEN "exited"
                                   ELSE "killed"]
    /\ pending' = pending \ {p}
    /\ UNCHANGED <<pidFile, mgmt, otherVars>>

\* the daemon ends without being asked to (a panic, a kill from elsewhere)
Dies(p) ==
    /\ proc[p] = "run"
    /\ proc' = [proc EXCEPT ![p] = "killed"]
    /\ UNCHANGED <<pidFile, pending, mgmt, otherVars>>

\* a management command can be run
CanStart == mgmt.pc = "done" /\ mgmt.n < MaxCommands

\* the command that has just been started: where it is, the PID it has
\* read, the signals it has sent and the error it returns
Command(op, at, pid, log, err) ==
    [op |-> op, pc |-> at, pid |-> pid, log |-> log, err |-> err,
     n |-> mgmt.n + 1]

\* stopDaemon up to its wait: getPID, isProcessRunning, SIGTERM
\* (sendOk: process.Signal returns nil)
StopDaemonStart(sendOk) ==
    /\ CanStart
    /\ IF pidFile = NoPid
       THEN /\ mgmt' = Command("stop", "done", NoPid, <<>>, "nopid")
            /\ UNCHANGED <<pidFile, pending>>
       ELSE IF ~isProcessRunning(pidFile)
       THEN /\ mgmt' = Command("stop", "done", pidFile, <<>>, "notrunning")
            /\ pidFile' = NoPid
            /\ UNCHANGED pending
       ELSE IF ~sendOk
       THEN /\ mgmt' = Command("stop", "done", pidFile, <<>>, "signal")
            /\ UNCHANGED <<pidFile, pending>>
       ELSE /\ mgmt' = Command("stop", "wait", pidFile, <<"SIGTERM">>, "nil")
            /\ pending' = pending \cup {pidFile}
            /\ UNCHANGED pidFile
    /\ UNCHANGED <<proc, otherVars>>

\* stopDaemon after its wait (the process has gone, or 5 seconds have
\* passed): SIGKILL if the process is still running, removePIDFile
StopDaemonFinish ==
    /\ mgmt.op = "stop"
    /\ mgmt.pc = "wait"
    /\ IF isProcessRunning(mgmt.pid)
       THEN /\ proc' = [proc EXCEPT ![mgmt.pid] = "killed"]
            /\ mgmt' = [mgmt EXCEPT !.pc = "done",
                                    !.log = Append(@, "SIGKILL")]
       ELSE /\ mgmt' = [mgmt EXCEPT !.pc = "done"]
            /\ UNCHANGED proc
    /\ pidFile' = NoPid
    /\ pending' = pending \ {mgmt.pid}
    /\ UNCHANGED otherVars

\* killDaemon (sendOk: process.Signal returns nil)
KillDaemon(sendOk) ==
    /\ CanStart
    /\ IF pidFile = NoPid
       THEN /\ mgmt' = Command("kill", "done", NoPid, <<>>, "nopid")
            /\ UNCHANGED <<pidFile, proc, pending>>
       ELSE IF ~isProcessRunning(pidFile)
       THEN /\ mgmt' = Command("kill", "done", pidFile, <<>>, "notrunning")
            /\ pidFile' = NoPid
            /\ UNCHANGED <<proc, pending>>
       ELSE IF ~sendOk
       THEN /\ mgmt' = Command("kill", "done", pidFile, <<>>, "signal")
            /\ UNCHANGED <<pidFile, proc, pending>>
       ELSE /\ mgmt' = Command("kill", "done", pidFile, <<"SIGKILL">>, "nil")
            /\ proc' = [proc EXCEPT ![pidFile] = "killed"]
            /\ pidFile' = NoPid
            /\ pending' = pending \ {pidFile}
    /\ UNCHANGED otherVars

\* cleanupPIDFile
CleanupPIDFile ==
    /\ CanStart
    /\ IF pidFile = NoPid
       THEN /\ mgmt' = Command("cleanup", "done", NoPid, <<>>, "nil")
            /\ UNCHANGED pidFile
       ELSE IF ~isProcessRunning(pidFile)
       THEN /\ mgmt' = Command("cleanup", "done", pidFile, <<>>,
                               "notrunning")
            /\ pidFile' = NoPid
       ELSE /\ mgmt' = Command("cleanup", "done", pidFile, <<>>, "nil")
            /\ UNCHANGED pidFile
    /\ UNCHANGED <<proc, pending, otherVars>>

NextPid ==
    \/ \E p \in Pids :
          \/ Spawn(p)
          \/ SavePID(p)
          \/ ExitParent(p)
          \/ RunDaemon(p)
          \/ TermDelivered(p)
          \/ Dies(p)
    \/ \E sendOk \in BOOLEAN : StopDaemonStart(sendOk)
    \/ StopDaemonFinish
    \/ \E sendOk \in BOOLEAN : KillDaemon(sendOk)
    \/ CleanupPIDFile

PidSpec == InitPid /\ [][NextPid]_vars

(* ----------------------------------------------------------------- claims *)

\* the records of the configured type, as GetAllDNSRecords returns them
Listed == TypeFilter(records, RecordType)

\* the cycle of h has ended and the next one has not started
Done(h) == pc[h] = "idle" /\ cyc[h].outcome # "none"

\* create and update requests the cycle of h has issued
NMut(h) == cyc[h].nCreate + cyc[h].nUpdate

\* both observations of the cycle of h are the same address, which is not
\* the address the cycle started with
ConfirmedChange(h) ==
    /\ ip[h] # NoIP
    /\ confirmIP[h] = ip[h]
    /\ ip[h] # cyc[h].startCur

\* C1 (as claimed): the PUT of a host changes no record other than the one
\* whose content was the host's own previous address; every other record
\* keeps its id, content and TTL.
C1_NonInterference ==
    [][\A h \in Hosts :
        (pc[h] = "upd_put" /\ pc'[h] # "upd_put")
        => /\ Len(records') = Len(records)
           /\ \A k \in 1..Len(records) :
                 records[k].content # currentIP[h]
                 => records'[k] = records[k]]_vars

\* C2 (as claimed): when the re-list after a successful mutation shows no
\* record with the confirmed address, currentIP is the same at the end of
\* the cycle as at its start.
C2_UnverifiedKeepsLastApplied ==
    \A h \in Hosts :
        (Done(h) /\ cyc[h].outcome = "unverified")
        => currentIP[h] = cyc[h].startCur

C4_Confirmation ==
    \A h \in Hosts :
        /\ (\/ pc[h] \in {"list", "uoc_list", "create", "upd_list",
                          "upd_put", "verify"}
            \/ NMut(h) > 0)
           => (ip[h] # NoIP /\ confirmIP[h] = ip[h])
        /\ (Done(h) /\ cyc[h].outcome \in {"mismatch", "conffail"})
           => (NMut(h) = 0 /\ cyc[h].nList = 0
               /\ currentIP[h] = cyc[h].startCur)

C4_Witness ==
    \E h \in Hosts :
        /\ Done(h)
        /\ cyc[h].outcome = "mismatch"
        /\ confirmIP[h] # NoIP
        /\ confirmIP[h] # ip[h]
        /\ \E g \in Hosts : NMut(g) > 0

\* C5 (as claimed): a cycle that observes the address the previous cycle of
\* the same process observed issues no create and no update.
C5_IdempotenceAsClaimed ==
    \A h \in Hosts :
        (Done(h) /\ prevObs[h] # NoIP /\ ip[h] = prevObs[h])
        => NMut(h) = 0

\* C5 (amended): a cycle that observes the address the previous cycle of the
\* same process observed, when that previous cycle ended with currentIP equal
\* to this address, issues no create and no update.
C5_Idempotence ==
    \A h \in Hosts :
        (/\ Done(h)
         /\ prevObs[h] # NoIP
         /\ ip[h] = prevObs[h]
         /\ cyc[h].startCur = prevObs[h])
        => NMut(h) = 0

C5_Witness ==
    \E h \in Hosts :
        /\ Done(h)
        /\ prevObs[h] # NoIP
        /\ ip[h] = prevObs[h]
        /\ cyc[h].startCur = prevObs[h]
        /\ Len(Listed) > 0

\* C6: when the records UpdateOrCreateDNSRecord lists hold neither the
\* confirmed address nor currentIP, the attempt goes to a create and to no
\* update, and the create leaves every record that existed as it was (the
\* new record is appended, or nothing changes when the call fails).
C6_FallbackCreation ==
    [][\A h \in Hosts :
        /\ (/\ pc[h] = "uoc_list"
            /\ pc'[h] # "uoc_list"
            /\ ~HasContent(Listed, ip[h])
            /\ ~HasContent(Listed, currentIP[h]))
           => pc'[h] = "create"
        /\ (pc[h] = "create" /\ pc'[h] # "create")
           => \/ records' = records
              \/ /\ Len(records') = Len(records) + 1
                 /\ SubSeq(records', 1, Len(records)) = records
                 /\ records'[Len(records')].content = ip[h]
                 /\ cyc'[h].nUpdate = cyc[h].nUpdate]_vars

C6_Witness ==
    \E h \in Hosts :
        /\ Done(h)
        /\ cyc[h].outcome = "applied"
        /\ ~cyc[h].callFailed
        /\ cyc[h].nCreate = 1
        /\ cyc[h].nUpdate = 0
        /\ Len(records) >= 2
        /\ records[Len(records)].content = ip[h]
        /\ \A k \in 1..(Len(records) - 1) : records[k].content # ip[h]

\* C7: a cycle whose first observation equals the currentIP it started with
\* ends at once: no provider call (no list, no create, no update), no second
\* observation, currentIP unchanged.
C7_NoOpShortCircuit ==
    \A h \in Hosts :
        (ip[h] # NoIP /\ ip[h] = cyc[h].startCur)
        => /\ pc[h] = "idle"
           /\ cyc[h].nList = 0
           /\ NMut(h) = 0
           /\ confirmIP[h] = NoIP
           /\ currentIP[h] = cyc[h].startCur

C7_Witness ==
    \E h \in Hosts :
        /\ Done(h)
        /\ ip[h] # NoIP
        /\ ip[h] = cyc[h].startCur
        /\ Len(Listed) > 0

\* C8: when the list checkAndUpdate makes after the confirmation succeeds
\* and holds a record with the confirmed address, the cycle ends there with
\* currentIP equal to that address, the records untouched and no create or
\* update issued.
C8_AlreadySatisfied ==
    [][\A h \in Hosts :
        (/\ pc[h] = "list"
         /\ pc'[h] # "list"
         /\ ~cyc'[h].callFailed
         /\ HasContent(Listed, ip[h]))
        => /\ pc'[h] = "idle"
           /\ currentIP'[h] = ip[h]
           /\ records' = records
           /\ cyc'[h].nCreate = 0
           /\ cyc'[h].nUpdate = 0]_vars

C8_Witness ==
    \E h \in Hosts :
        /\ Done(h)
        /\ cyc[h].outcome = "satisfied"
        /\ cyc[h].startCur = NoIP
        /\ restarts > 0
        /\ currentIP[h] = ip[h]

\* C9 (as claimed): starting from no record, the name never holds more
\* records of the configured type than there are hosts.
C9_OneRecordPerHost ==
    Len(Listed) <= Cardinality(Hosts)

\* C10 (as claimed): once the addresses have stopped changing at two
\* different addresses, the records eventually hold the address of each host
\* and keep holding both.
C10_MultiHostConvergence ==
    <>[](addr[1] # addr[2]
         => \A h \in Hosts : HasContent(Listed, addr[h]))

\* the positions inside the mutation retry loop of checkAndUpdate
InRetryLoop == {"uoc_list", "create", "upd_list", "upd_put"}

\* C11 (as claimed): whenever currentIP gets a new non-empty value, a record
\* of the configured type with that content exists at the provider at that
\* moment (the moment the reconciliation finishes).
C11_SessionState ==
    [][\A h \in Hosts :
        (currentIP'[h] # currentIP[h] /\ currentIP'[h] # NoIP)
        => HasContent(TypeFilter(records', RecordType), currentIP'[h])]_vars

C13_ResolutionRetry ==
    [][\A h \in Hosts :
        (cyc[h].outcome = "none"
         /\ cyc'[h].outcome \in {"resfail", "conffail"})
        => /\ attempt[h] = maxRetries - 1
           /\ cyc'[h].nList = 0
           /\ NMut(h) = 0
           /\ currentIP'[h] = cyc[h].startCur]_vars

\* C14 (as claimed): when the list of records that follows the confirmation
\* returns an error, the cycle ends there: no create or update follows and
\* currentIP stays as it was.
C14_ListFailureEndsCycle ==
    [][\A h \in Hosts :
        (pc[h] = "list" /\ pc'[h] # "list" /\ cyc'[h].callFailed)
        => (pc'[h] = "idle" /\ currentIP'[h] = currentIP[h])]_vars

\* C19: a PUT answered with status 200 and success:true whose echoed content
\* is not the content asked for makes the attempt fail: the loop goes to the
\* next attempt, or, after the third, the cycle ends as failed with
\* currentIP as it was at the start; it never goes on to the verification.
C19_ReadBackVerification ==
    [][\A h \in Hosts :
        (pc[h] = "upd_put" /\ pc'[h] # "upd_put"
         /\ cyc'[h].put = "mismatch")
        => \/ /\ pc'[h] = "uoc_list"
              /\ attempt'[h] = attempt[h] + 1
              /\ currentIP'[h] = currentIP[h]
           \/ /\ pc'[h] = "idle"
              /\ attempt[h] = maxRetries - 1
              /\ cyc'[h].outcome = "failed"
              /\ currentIP'[h] = cyc[h].startCur]_vars

C19_Witness ==
    \E h \in Hosts :
        /\ Done(h)
        /\ cyc[h].put = "mismatch"
        /\ cyc[h].outcome = "failed"
        /\ cyc[h].nUpdate = maxRetries
        /\ currentIP[h] = cyc[h].startCur

C16_TTLOnCreate ==
    [][(Len(records') = Len(records) + 1)
        => LET new == records'[Len(records')] IN
           IF Len(records) > 0
           THEN \E k \in 1..Len(records) : records[k].ttl = new.ttl
           ELSE new.ttl = FallbackTTL]_vars

\* a dotted quad, the only form of an IPv4 literal
IsIPv4Literal(text) == ParseIPv4(text) # Nil

\* the endpoint answers with status 200 and an IPv4 literal, whitespace apart
OffersIPv4(url) ==
    /\ answer[url].transport
    /\ answer[url].status = StatusOK
    /\ IsIPv4Literal(TrimSpace(answer[url].body))

\* the primary endpoint, then the other endpoints in list order
QueryOrder ==
    <<primaryService>> \o SelectSeq(services, LAMBDA u : u # primaryService)

\* the position in QueryOrder of the first endpoint that offers an IPv4
\* literal, 0 when none does
FirstOffer ==
    IF \E k \in 1..Len(QueryOrder) : OffersIPv4(QueryOrder[k])
    THEN CHOOSE k \in 1..Len(QueryOrder) :
            /\ OffersIPv4(QueryOrder[k])
            /\ \A j \in 1..(k - 1) : ~OffersIPv4(QueryOrder[j])
    ELSE 0

\* C17 (as claimed): the endpoints are queried in the order primary first,
\* then the rest in list order, each once; the call returns the answer of the
\* first endpoint that offers an IPv4 literal, with that endpoint as source,
\* and queries no endpoint after it; it fails only when no endpoint offers
\* one, having queried all.
C17_ResolverOrder ==
    /\ queried = SubSeq(QueryOrder, 1, Len(queried))
    /\ (result.state \in {"ok", "failed"})
       => IF FirstOffer = 0
          THEN result.state = "failed" /\ queried = QueryOrder
          ELSE /\ result.state = "ok"
               /\ queried = SubSeq(QueryOrder, 1, FirstOffer)
               /\ result.service = QueryOrder[FirstOffer]
               /\ result.ip = TrimSpace(answer[result.service].body)

\* C18 (as claimed): the address the call returns is an IPv4 literal, and
\* when the call fails its error carries the error of the last endpoint
\* queried.
C18_ResolverValidation ==
    /\ (result.state = "ok") => IsIPv4Literal(result.ip)
    /\ (result.state = "failed")
       => /\ result.err # NoErr
          /\ result.err = getIPFromService(queried[Len(queried)]).err

\* t occurs in s as a run of consecutive characters
IsSubstring(t, s) ==
    \E i \in 0..(Len(s) - Len(t)) : SubSeq(s, i + 1, i + Len(t)) = t

\* C20: a list, create or update call whose response has a status other than
\* 200, or status 200 and success:false, returns an error and no result; in
\* the success:false case the text of the error holds, for every entry of the
\* errors list, its code followed by its message.
C20_SuccessFlag ==
    (verdict.state = "returned" /\ response.transport)
    => /\ (response.status # StatusOK
           \/ (response.parsable /\ ~response.success))
          => (verdict.err.kind # "nil" /\ verdict.result = NoIP)
       /\ (response.status = StatusOK /\ response.parsable
           /\ ~response.success)
          => \A i \in 1..Len(response.errors) :
                IsSubstring(Itoa(response.errors[i].code) \o <<":", " ">>
                                \o response.errors[i].message,
                            verdict.err.text)

C20_Witness ==
    /\ verdict.state = "returned"
    /\ response.transport
    /\ response.status = StatusOK
    /\ response.parsable
    /\ ~response.success
    /\ Len(response.errors) = 2
    /\ response.errors[1] # response.errors[2]
    /\ verdict.err.kind = "api"

(* ------------------------------------------------- claims on the scheduler *)

\* a cycle of the daemon is in progress
InCycle == pc[1] # "idle"

\* this step receives from ticker.C
TickTaken == tickC /\ ~tickC'

\* this step starts a cycle
CycleStarts == pc[1] = "idle" /\ pc'[1] # "idle"

\* this step ends a cycle
CycleEnds == pc[1] # "idle" /\ pc'[1] = "idle"

SignalTaken == Len(sigChan') < Len(sigChan)

\* what C22 shares with its amended form: runDaemon starts the startup cycle
\* at once and handles no event while it runs; afterwards every tick received
\* starts a cycle, only a received tick starts a cycle, and handling a signal
\* starts none
StartupThenTicks ==
    [][ /\ (loop = "main" /\ loop' = "run") => (CycleStarts /\ startup')
        /\ (startup /\ InCycle) =>
               (~SignalTaken /\ ~TickTaken /\ loop' = loop)
        /\ TickTaken => CycleStarts
        /\ (loop = "run" /\ CycleStarts) => TickTaken
        /\ SignalTaken => ~CycleStarts ]_vars

\* C22 (startup and ticks) as claimed: one cycle at startup before any event
\* is handled, then exactly one cycle for every tick of the ticker and no
\* cycle without a tick: no tick the ticker fires goes without its cycle.
C22_StartupAndTicksAsClaimed == StartupThenTicks /\ [](~lost)

\* C22 (startup and ticks), amended: one cycle at startup before any event is
\* handled, then exactly one cycle for every tick received from ticker.C and
\* no cycle without one; ticker.C holds one tick, and a tick that fires while
\* one is waiting there is dropped.
C22_StartupAndTicks ==
    StartupThenTicks /\ [][lost' # lost => (tickC /\ tickC')]_vars

\* a tick has been dropped during a long cycle and the tick that was waiting
\* has started the next cycle
C22_Witness ==
    /\ loop = "run"
    /\ lost
    /\ ~startup
    /\ InCycle
    /\ ~tickC

\* a shutdown signal waits in sigChan
StopWaiting == \E k \in 1..Len(sigChan) : sigChan[k] \in StopSignals

\* C23 (shutdown is coarse): the loop does not exit while a cycle is in
\* progress, and once a shutdown signal sent during a cycle waits in sigChan
\* the loop starts no further cycle.
C23_CoarseShutdown ==
    [][ /\ InCycle => loop' = loop
        /\ (loop = "run" /\ stopReq = "cycle" /\ StopWaiting)
               => ~CycleStarts ]_vars

\* C24 (shutdown liveness): a shutdown signal sent to the running loop,
\* whatever else is pending, leads to the exit of the loop.
C24_ShutdownLiveness == (stopReq # "none") ~> (loop = "exited")

\* a cycle in progress keeps its configuration and its client
CycleKeepsConfig ==
    [][InCycle => (config' = config /\ cfClient' = cfClient)]_vars

\* C25 (reload between cycles) as claimed: a cycle in progress keeps its
\* configuration and its client, and the loop does not exit with a reload
\* request that arrived during a cycle and has not been serviced.
C25_ReloadBetweenCyclesAsClaimed ==
    CycleKeepsConfig /\ [](loop = "exited" => reloadReq = "none")

\* C25 (reload between cycles), amended: a cycle in progress keeps its
\* configuration and its client, and the loop does not exit with an
\* unserviced reload request that arrived during a cycle, unless a shutdown
\* signal was already waiting in sigChan when the request arrived.
C25_ReloadBetweenCycles ==
    CycleKeepsConfig /\ [](loop = "exited" => reloadReq # "queued")

\* the cycle during which the reload request arrived has ended with the
\* configuration it started with, and the request waits at the select for a
\* file that reloadConfig will accept
C25_Witness ==
    /\ loop = "run"
    /\ ~InCycle
    /\ reloadReq = "queued"
    /\ ~Incomplete(LoadConfig(file))
    /\ LoadConfig(file) # config
    /\ cyc[1].nList > 0

\* the outcomes of a cycle that has ended in an error: the resolver failed,
\* the confirmation failed or did not match, the provider calls failed, the
\* re-list did not show the record
ErrorOutcomes == {"resfail", "conffail", "mismatch", "failed", "unverified"}

\* the last cycle of the daemon has ended in an error
EndedInError ==
    \/ cyc[1].outcome \in ErrorOutcomes
    \/ cyc[1].outcome = "applied" /\ cyc[1].callFailed

\* C26 (errors are not fatal): once a cycle of the daemon has ended in an
\* error, checkAndUpdate has returned to the select of the running loop, and
\* a tick waiting there starts the next cycle.
C26_ErrorsNotFatal ==
    (loop = "run" /\ EndedInError) =>
        /\ pc[1] = "idle"
        /\ tickC => ENABLED ReceiveTick(FALSE)

\* the mutation has failed three times, the loop is at its select and the
\* next tick waits
C26_Witness ==
    /\ loop = "run"
    /\ cyc[1].outcome = "failed"
    /\ NMut(1) = maxRetries
    /\ tickC

\* C27 (fatal configuration errors): a process whose configuration after
\* loading lacks the credential, the zone or the record name has stopped in
\* main and has run no cycle.
C27_FatalConfigErrors ==
    (loop # "main" /\ Incomplete(config)) =>
        /\ loop = "fatal"
        /\ pc[1] = "idle"
        /\ cyc[1] = NewCycle(NoIP)

\* this step is the reloadConfig of a received SIGHUP
ReloadStep ==
    /\ loop = "run"
    /\ sigChan # <<>>
    /\ Head(sigChan) = "SIGHUP"
    /\ SignalTaken

\* C28 (reload with an invalid configuration): a reload that reads a
\* configuration lacking the credential, the zone or the record name leaves
\* config, cfClient and currentIP as they are; any other reload installs the
\* configuration read, and builds a new client exactly when the credential
\* differs from the one in use.
C28_ReloadRejected ==
    [][ ReloadStep =>
          LET newConfig == LoadConfig(file) IN
          IF Incomplete(newConfig)
          THEN /\ config' = config
               /\ cfClient' = cfClient
               /\ currentIP' = currentIP
          ELSE /\ config' = newConfig
               /\ cfClient'.apiToken = newConfig.APIToken
               /\ (cfClient' # cfClient)
                      <=> (newConfig.APIToken # config.APIToken) ]_vars

\* a reload has installed the configuration of the file and has built a new
\* client for its credential
C28_Witness ==
    /\ loop = "run"
    /\ cfClient.id > 1
    /\ cfClient.apiToken = config.APIToken
    /\ config = LoadConfig(file)
    /\ currentIP[1] # NoIP

\* an accepted reload has pointed the daemon at another zone or name after
\* it had written its record
Repointed == \E p \in Places : zones[p] # <<>>

\* a record with the address of the host is at the configured name
RecordInPlace == HasContent(Listed, addr[1])

\* C29 (reload to a different record): once an accepted reload has changed
\* the zone or the name, the address of the host staying the same and every
\* call succeeding, a record with the address of the host comes to exist at
\* the configured name (unless a shutdown is requested or the record is
\* tampered with).
C29_ReloadToDifferentRecord ==
    (loop = "run" /\ Repointed /\ tampers = 0)
        ~> (RecordInPlace \/ stopReq # "none" \/ tampers > 0)

\* C30 (recovery from external change): once another actor has deleted or
\* overwritten the record of the host after a successful cycle, the address
\* of the host staying the same and every call succeeding, a record with the
\* address of the host comes to exist again (unless a shutdown is requested
\* or a reload points the daemon elsewhere).
C30_RecoveryFromExternalChange ==
    (loop = "run" /\ tampers > 0 /\ ~Repointed)
        ~> (RecordInPlace \/ stopReq # "none" \/ Repointed)

(* ---------------------------------------- claims on records and processes *)

\* host h issues the POST of CreateDNSRecord in this step
CreateIssued(h) ==
    pc[h] = "create" /\ cyc'[h].nCreate = cyc[h].nCreate + 1

\* C31 (no duplicate content): whatever calls fail or are retried, no create
\* is issued for an address while a record of the configured type with that
\* content is at the name.
C31_NoDuplicateContent ==
    [][\A h \in Hosts :
          CreateIssued(h) => ~HasContent(Listed, ip[h])]_vars

\* a cycle, a manual update or a record listing has been started from the
\* menu
OperationStarted == loop \in {"monitor", "update", "view"}

\* C32 (client always initialised): in interactive mode, whenever a cycle, a
\* manual update or a record listing is started, there is a client and the
\* configuration has a credential, a zone and a record name.
C32_ClientAlwaysInitialised ==
    OperationStarted => (cfClient # NoClient /\ ~Incomplete(config))

\* C33 (record type): every record the engine has created or updated has
\* the type A or AAAA, whatever configuration file was loaded.
C33_RecordType ==
    \A k \in 1..Len(records) : records[k].type \in ValidTypes

\* the processes that run the reconciliation loop
Running == { p \in Pids : proc[p] = "run" }

\* the --daemon start has settled: the process started from the shell has
\* exited, no process is still starting, none has been stopped or has died,
\* and no management command has run
Settled ==
    /\ proc[1] = "exited"
    /\ \A p \in Pids : proc[p] \in {"none", "exited", "run"}
    /\ mgmt.n = 0

\* C34 (daemon start and PID file): once a --daemon start has settled,
\* exactly one process runs the loop and the PID file holds its PID.
C34_DaemonStartAndPidFile ==
    Settled => (Cardinality(Running) = 1 /\ pidFile \in Running)

\* a management command is started in this step
CommandStarts == mgmt'.n = mgmt.n + 1

====
